---- MODULE Spec2Model ----
(***************************************************************************)
(* Chat-session lifecycle and message persistence of text-wise-query.      *)
(*                                                                         *)
(* The store (two Supabase tables, chat_sessions and chat_messages), the   *)
(* functions of src/src/utils/chatHistoryUtils.ts that talk to it, and the *)
(* Index page (src/src/pages/Index.tsx) with its history panel and chat    *)
(* input (src/src/components/ChatHistory.tsx); generateResponse of         *)
(* src/src/utils/chatUtils.ts with the function it invokes                 *)
(* (src/supabase/functions/generate-ai-response/index.ts); the documents   *)
(* table with saveDocumentToSupabase, deleteDocumentFromSupabase and the   *)
(* upload handler of DocumentUploader.                                     *)
(*                                                                         *)
(* Every awaited store request is one step: the request takes effect on    *)
(* the tables and its {data, error} answer is put in the caller's frame.   *)
(* What the caller does with the answer (the code after the await of the   *)
(* whole function) is a later step, so user events, timers and other       *)
(* requests interleave as they do on the JavaScript event loop.            *)
(* supabase-js reports failures in the error field and does not throw, so  *)
(* a request has the outcomes "ok" and "error".                            *)
(*                                                                         *)
(* Optional values (undefined, null, an absent JSON field) are sequences   *)
(* of length at most one: <<>> is absent, <<v>> is present.  Strings the   *)
(* code measures or cuts are sequences of character codes.                 *)
(***************************************************************************)
EXTENDS Integers, Sequences, FiniteSets, TLC

VARIABLES
    chat_sessions,          \* table chat_sessions: id -> row, or NoRow
    chat_messages,          \* table chat_messages: set of rows
    stored_documents,       \* table documents: the ids of its rows
    now,                    \* Date.now(), in milliseconds
    nextSession,            \* uuidv4(): the next fresh session id
    calls,                  \* caller -> frame of its chatHistoryUtils call
    failures,               \* store requests answered with an error so far
    documents,              \* Index: documents (ids)
    messages,               \* Index: messages
    currentChatId,          \* Index: currentChatId (Null for null)
    isSaving,               \* Index: isSaving
    isWaitingForResponse,   \* Index: isWaitingForResponse
    saveChatDebounced,      \* Index: the pending timer of the save effect
    sends,                  \* Index: handleSendMessage calls past their first await
    nextMsg,                \* Math.random() ids handed out so far
    chatSessions,           \* ChatHistory: chatSessions (ids shown in the panel)
    clicks,                 \* clicks on the history panel so far
    saveLog,                \* history: <<session, message id>> handed to saveChatMessages
    shown,                  \* history: <<session, message id>> displayed under a session
    origin,                 \* history: <<bot message id, session of its request>>
    deletedOk               \* history: ids for which deleteChatSession returned true

storeVars == <<chat_sessions, chat_messages, stored_documents, now, nextSession, calls,
               failures>>
pageState == <<documents, messages, currentChatId, isSaving, isWaitingForResponse,
               saveChatDebounced, sends, nextMsg, chatSessions>>
pageVars == <<pageState, clicks>>
historyVars == <<saveLog, shown, origin, deletedOk>>
vars == <<storeVars, pageVars, historyVars>>

----------------------------------------------------------------------------
(* Bounds of the model *)

MaxSessions == 2
MaxNewMsgs == 4
TickMs == 500
MaxLen == 2
MaxCalls == 2
MaxFailures == 1
MaxClicks == 2
StartClock == 1000

Null == 0
SessionIds == 1..MaxSessions
NoRow == [present |-> FALSE, title |-> <<>>, document_ids |-> <<>>,
          created_at |-> [sec |-> 0, ms |-> 0], updated_at |-> [sec |-> 0, ms |-> 0]]

----------------------------------------------------------------------------
(* Dates *)

\* new Date(t).toISOString(): the instant as calendar seconds and milliseconds
ToISOString(t) == [sec |-> t \div 1000, ms |-> t % 1000]

\* new Date(iso).getTime()
GetTime(iso) == iso.sec * 1000 + iso.ms

\* the store's order on timestamptz values
IsoLeq(a, b) == a.sec < b.sec \/ (a.sec = b.sec /\ a.ms <= b.ms)

----------------------------------------------------------------------------
(* ChatMessage <-> chat_messages row *)

Some(v) == <<v>>
None == <<>>

\* source_info of an inserted row: undefined members are dropped by JSON.
\* A stored source_info is any JSON value; isObject tells whether typeof
\* calls it an object
SourceInfoToJson(sourceInfo) ==
    IF sourceInfo = None THEN None
    ELSE Some([isObject |-> TRUE,
               sourceDocuments |-> Some(sourceInfo[1].sourceDocuments),
               pageNumber |-> sourceInfo[1].pageNumber,
               sectionInfo |-> sourceInfo[1].sectionInfo,
               paragraphInfo |-> sourceInfo[1].paragraphInfo])

\* messages.map(msg => ({...})) of saveChatMessages
MessageToRow(sessionId, msg) ==
    [id |-> msg.id,
     session_id |-> sessionId,
     text |-> msg.text,
     sender |-> msg.sender,
     timestamp |-> ToISOString(msg.timestamp),
     source_info |-> SourceInfoToJson(msg.sourceInfo)]

MessagesToInsert(sessionId, msgs) ==
    { MessageToRow(sessionId, msgs[i]) : i \in 1..Len(msgs) }

\* a stored source_info that is a JSON string
JsonString ==
    [isObject |-> FALSE, sourceDocuments |-> None, pageNumber |-> None,
     sectionInfo |-> None, paragraphInfo |-> None]

\* typeof msg.source_info === 'object' ? msg.source_info : {}
ObjectOrEmpty(json) ==
    IF json.isObject THEN json
    ELSE [json EXCEPT !.sourceDocuments = None, !.pageNumber = None,
                      !.sectionInfo = None, !.paragraphInfo = None]

\* getChatMessages handing on a member that is missing as it is
StringOrAbsent(field) == field

\* typeof x === 'string' ? x : String(x || '')
StringOrEmpty(field) == IF field = None THEN Some(<<>>) ELSE field

\* data.map(msg => {...}) of getChatMessages
RowToMessage(row) ==
    [id |-> row.id,
     text |-> row.text,
     sender |-> row.sender,
     timestamp |-> GetTime(row.timestamp),
     sourceInfo |->
        IF row.source_info = None THEN None
        ELSE LET sourceInfo == ObjectOrEmpty(row.source_info[1])
             IN Some([sourceDocuments |->
                          IF sourceInfo.sourceDocuments = None THEN <<>>
                          ELSE sourceInfo.sourceDocuments[1],
                      pageNumber |-> StringOrEmpty(sourceInfo.pageNumber),
                      sectionInfo |-> StringOrEmpty(sourceInfo.sectionInfo),
                      paragraphInfo |-> StringOrEmpty(sourceInfo.paragraphInfo)])]

----------------------------------------------------------------------------
(* The store's queries *)

RowsOf(rows, sessionId) == { r \in rows : r.session_id = sessionId }

Earliest(rows) == { r \in rows : \A q \in rows : IsoLeq(r.timestamp, q.timestamp) }

\* .order("timestamp", {ascending: true}): every order the store may answer
\* in; rows of equal timestamp come in any order
RECURSIVE OrderByTimestamp(_)
OrderByTimestamp(rows) ==
    IF rows = {} THEN { <<>> }
    ELSE UNION { { <<r>> \o rest : rest \in OrderByTimestamp(rows \ {r}) }
                 : r \in Earliest(rows) }

\* .from("chat_messages").delete().eq("session_id", id)
DeleteMessagesOf(rows, sessionId) == rows \ RowsOf(rows, sessionId)

\* .from("chat_messages").insert(rows): id is the primary key of the table, so
\* an insert that repeats a stored id can only be answered with an error
InsertOutcomes(rows, new, outcomes) ==
    IF \E r \in rows, n \in new : r.id = n.id THEN {"error"} ELSE outcomes

\* .from("chat_sessions").update({updated_at}).eq("id", id): no row, no change
TouchSession(sessions, id, t) ==
    IF id \in SessionIds /\ sessions[id].present
    THEN [sessions EXCEPT ![id].updated_at = ToISOString(t)]
    ELSE sessions

IdsOf(msgs) == { msgs[i].id : i \in 1..Len(msgs) }

----------------------------------------------------------------------------
(* Frames of the chatHistoryUtils calls *)

IdleFrame ==
    [fn |-> "none", pc |-> "idle", sessionId |-> Null, messages |-> <<>>,
     title |-> <<>>, documentIds |-> <<>>, timestamp |-> 0, result |-> "none",
     trace |-> <<>>, clean |-> TRUE, current |-> Null,
     question |-> <<>>, invocations |-> 0, upstream |-> <<>>, response |-> <<>>,
     invoked |-> <<>>, message |-> <<>>, document |-> <<>>, toast |-> <<>>]

Frame(fn, pc, sessionId) ==
    [IdleFrame EXCEPT !.fn = fn, !.pc = pc, !.sessionId = sessionId]

\* a write by caller c to the log of sessionId: the other callers' frames on
\* that session are no longer alone on it
Touch(cs, c, sessionId) ==
    [d \in DOMAIN cs |->
        IF d # c /\ cs[d].fn # "none" /\ cs[d].sessionId = sessionId
        THEN [cs[d] EXCEPT !.clean = FALSE]
        ELSE cs[d]]

Done(frame, result) == [frame EXCEPT !.pc = "done", !.result = result]

Step(frame, name, outcome) ==
    [frame EXCEPT !.trace = Append(@, <<name, outcome>>)]

\* the answers a request can get: at most MaxFailures requests fail
Outcomes == IF failures < MaxFailures THEN {"ok", "error"} ELSE {"ok"}

Answered(outcome) ==
    failures' = IF outcome = "error" /\ failures < MaxFailures
                THEN failures + 1 ELSE failures

----------------------------------------------------------------------------
(* saveChatMessages(sessionId, messages) *)

StartSave(c, sessionId, msgs) ==
    calls' = [calls EXCEPT ![c] =
                 [Frame("save", "update", sessionId) EXCEPT
                     !.messages = msgs, !.timestamp = now]]

\* "if (messages.length === 0) return true" after the delete of the old rows
SaveAfterDelete(msgs) == IF Len(msgs) = 0 THEN "done" ELSE "insert"

\* saveChatMessages returning true whatever the insert said
SaveAfterInsertIgnoringError(insertError) == "true"

\* "if (error) return false; return true" after the insert
SaveAfterInsert(insertError) == IF insertError THEN "false" ELSE "true"

\* await supabase.from("chat_sessions").update({updated_at}).eq("id", sessionId);
\* updated_at is new Date() of the moment the request was built, at the start
\* of the call; the answer is not looked at
SaveUpdate(c) ==
    /\ calls[c].fn = "save" /\ calls[c].pc = "update"
    /\ \E o \in Outcomes :
         /\ chat_sessions' = IF o = "ok"
                             THEN TouchSession(chat_sessions, calls[c].sessionId,
                                               calls[c].timestamp)
                             ELSE chat_sessions
         /\ calls' = [calls EXCEPT ![c] = [Step(@, "update", o) EXCEPT !.pc = "delete"]]
         /\ Answered(o)
    /\ UNCHANGED stored_documents
    /\ UNCHANGED <<chat_messages, now, nextSession, pageVars, historyVars>>

\* await supabase.from("chat_messages").delete().eq("session_id", sessionId);
\* the answer is not looked at
SaveDelete(c) ==
    /\ calls[c].fn = "save" /\ calls[c].pc = "delete"
    /\ \E o \in Outcomes :
         LET f == Step(calls[c], "delete", o)
             g == IF SaveAfterDelete(f.messages) = "done"
                  THEN Done(f, "true")
                  ELSE [f EXCEPT !.pc = "insert"]
             cs == [calls EXCEPT ![c] = g]
         IN /\ chat_messages' = IF o = "ok"
                                THEN DeleteMessagesOf(chat_messages, f.sessionId)
                                ELSE chat_messages
            /\ calls' = IF o = "ok" THEN Touch(cs, c, f.sessionId) ELSE cs
            /\ Answered(o)
    /\ UNCHANGED stored_documents
    /\ UNCHANGED <<chat_sessions, now, nextSession, pageVars, historyVars>>

\* const { error } = await supabase.from("chat_messages").insert(messagesToInsert)
SaveInsert(c) ==
    /\ calls[c].fn = "save" /\ calls[c].pc = "insert"
    /\ LET new == MessagesToInsert(calls[c].sessionId, calls[c].messages)
       IN \E o \in InsertOutcomes(chat_messages, new, Outcomes) :
            LET f == Step(calls[c], "insert", o)
                cs == [calls EXCEPT ![c] = Done(f, SaveAfterInsert(o = "error"))]
            IN /\ chat_messages' = IF o = "ok" THEN chat_messages \cup new
                                   ELSE chat_messages
               /\ calls' = IF o = "ok" THEN Touch(cs, c, f.sessionId) ELSE cs
               /\ Answered(o)
    /\ UNCHANGED stored_documents
    /\ UNCHANGED <<chat_sessions, now, nextSession, pageVars, historyVars>>

----------------------------------------------------------------------------
(* updateChatSessionTitle(id, title) *)

StartRename(c, id, title) ==
    calls' = [calls EXCEPT ![c] =
                 [Frame("rename", "update", id) EXCEPT
                     !.title = title, !.timestamp = now]]

\* an update that writes created_at along with title and updated_at
RenameSessionRestamping(sessions, id, title, t) ==
    IF id \in SessionIds /\ sessions[id].present
    THEN [sessions EXCEPT ![id].title = title, ![id].updated_at = ToISOString(t),
                          ![id].created_at = ToISOString(t)]
    ELSE sessions

\* .update({title, updated_at}).eq("id", id): no row, no change
RenameSession(sessions, id, title, t) ==
    IF id \in SessionIds /\ sessions[id].present
    THEN [sessions EXCEPT ![id].title = title, ![id].updated_at = ToISOString(t)]
    ELSE sessions

\* "if (error) return false; return true"
RenameAfterUpdate(updateError) == IF updateError THEN "false" ELSE "true"

\* const { error } = await supabase.from("chat_sessions").update({...})
RenameUpdate(c) ==
    /\ calls[c].fn = "rename" /\ calls[c].pc = "update"
    /\ \E o \in Outcomes :
         LET f == Step(calls[c], "update", o)
         IN /\ chat_sessions' = IF o = "ok"
                                THEN RenameSession(chat_sessions, f.sessionId, f.title,
                                                   f.timestamp)
                                ELSE chat_sessions
            /\ calls' = [calls EXCEPT ![c] = Done(f, RenameAfterUpdate(o = "error"))]
            /\ Answered(o)
    /\ UNCHANGED stored_documents
    /\ UNCHANGED <<chat_messages, now, nextSession, pageVars, historyVars>>

----------------------------------------------------------------------------
(* deleteChatSession(id) *)

\* current is the currentChatId the caller will compare id with afterwards
StartDelete(c, id, current) ==
    calls' = [calls EXCEPT ![c] =
                 [Frame("delete", "messages", id) EXCEPT !.current = current]]

\* deleteChatSession going on to the session row whatever the first delete said
DeleteAfterMessagesIgnoringError(messagesError) == "session"

\* "if (messagesError) return false" before the delete of the session row
DeleteAfterMessages(messagesError) == IF messagesError THEN "done" ELSE "session"

\* "if (sessionError) return false; return true"
DeleteAfterSession(sessionError) == IF sessionError THEN "false" ELSE "true"

\* const { error: messagesError } = await ...from("chat_messages").delete()
DeleteMessages(c) ==
    /\ calls[c].fn = "delete" /\ calls[c].pc = "messages"
    /\ \E o \in Outcomes :
         LET f == Step(calls[c], "messages", o)
             g == IF DeleteAfterMessages(o = "error") = "done"
                  THEN Done(f, "false")
                  ELSE [f EXCEPT !.pc = "session"]
             cs == [calls EXCEPT ![c] = g]
         IN /\ chat_messages' = IF o = "ok"
                                THEN DeleteMessagesOf(chat_messages, f.sessionId)
                                ELSE chat_messages
            /\ calls' = IF o = "ok" THEN Touch(cs, c, f.sessionId) ELSE cs
            /\ Answered(o)
    /\ UNCHANGED stored_documents
    /\ UNCHANGED <<chat_sessions, now, nextSession, pageVars, historyVars>>

\* const { error: sessionError } = await ...from("chat_sessions").delete()
DeleteSession(c) ==
    /\ calls[c].fn = "delete" /\ calls[c].pc = "session"
    /\ \E o \in Outcomes :
         LET f == Step(calls[c], "session", o)
             id == f.sessionId
             result == DeleteAfterSession(o = "error")
         IN /\ chat_sessions' = IF o = "ok" /\ id \in SessionIds
                                THEN [chat_sessions EXCEPT ![id] = NoRow]
                                ELSE chat_sessions
            /\ calls' = [calls EXCEPT ![c] = Done(f, result)]
            /\ deletedOk' = IF result = "true" THEN deletedOk \cup {id} ELSE deletedOk
            /\ Answered(o)
    /\ UNCHANGED stored_documents
    /\ UNCHANGED <<chat_messages, now, nextSession, pageVars, saveLog, shown, origin>>

----------------------------------------------------------------------------
(* getChatSession(id), getChatMessages(sessionId), createChatSession *)

\* .select("*").eq("id", id).single(): no row is an error of single()
GetChatSessionResult(sessions, id, o) ==
    IF o = "error" \/ id \notin SessionIds \/ ~sessions[id].present
    THEN None
    ELSE Some([id |-> id,
               title |-> sessions[id].title,
               documentIds |-> sessions[id].document_ids,
               createdAt |-> GetTime(sessions[id].created_at),
               updatedAt |-> GetTime(sessions[id].updated_at)])

\* every answer getChatMessages may give for the stored rows
GetChatMessagesResults(rows, sessionId, o) ==
    IF o = "error" THEN { <<>> }
    ELSE { [i \in 1..Len(ordered) |-> RowToMessage(ordered[i])]
           : ordered \in OrderByTimestamp(RowsOf(rows, sessionId)) }

StartGetSession(c, id) ==
    calls' = [calls EXCEPT ![c] = Frame("getSession", "select", id)]

GetSession(c) ==
    /\ calls[c].fn = "getSession" /\ calls[c].pc = "select"
    /\ \E o \in Outcomes :
         LET f == Step(calls[c], "select", o)
             found == GetChatSessionResult(chat_sessions, f.sessionId, o) # None
         IN /\ calls' = [calls EXCEPT ![c] = Done(f, IF found THEN "true" ELSE "false")]
            /\ Answered(o)
    /\ UNCHANGED stored_documents
    /\ UNCHANGED <<chat_sessions, chat_messages, now, nextSession, pageVars, historyVars>>

StartGetMessages(c, id) ==
    calls' = [calls EXCEPT ![c] = Frame("getMessages", "select", id)]

GetMessages(c) ==
    /\ calls[c].fn = "getMessages" /\ calls[c].pc = "select"
    /\ \E o \in Outcomes :
         \E loaded \in GetChatMessagesResults(chat_messages, calls[c].sessionId, o) :
            /\ calls' = [calls EXCEPT ![c] =
                           [Done(Step(@, "select", o), "true") EXCEPT !.messages = loaded]]
            /\ Answered(o)
    /\ UNCHANGED stored_documents
    /\ UNCHANGED <<chat_sessions, chat_messages, now, nextSession, pageVars, historyVars>>

\* const id = uuidv4(); const timestamp = Date.now(); the insert is awaited
StartCreate(c, documentIds, title) ==
    /\ nextSession <= MaxSessions
    /\ calls' = [calls EXCEPT ![c] =
                    [Frame("create", "insert", nextSession) EXCEPT
                        !.title = title, !.documentIds = documentIds,
                        !.timestamp = now]]
    /\ nextSession' = nextSession + 1

NewSessionRow(title, documentIds, timestamp) ==
    [present |-> TRUE, title |-> title, document_ids |-> documentIds,
     created_at |-> ToISOString(timestamp), updated_at |-> ToISOString(timestamp)]

\* "if (error) return null" else the session read back from the store
CreateInsert(c) ==
    /\ calls[c].fn = "create" /\ calls[c].pc = "insert"
    /\ \E o \in Outcomes :
         LET f == Step(calls[c], "insert", o)
         IN /\ chat_sessions' =
                  IF o = "ok"
                  THEN [chat_sessions EXCEPT ![f.sessionId] =
                           NewSessionRow(f.title, f.documentIds, f.timestamp)]
                  ELSE chat_sessions
            /\ calls' = [calls EXCEPT ![c] =
                            Done(f, IF o = "error" THEN "false" ELSE "true")]
            /\ Answered(o)
    /\ UNCHANGED stored_documents
    /\ UNCHANGED <<chat_messages, now, nextSession, pageVars, historyVars>>

\* a message was stamped with Date.now(): the next one is stamped later
ClockRead == now' = now + 1

----------------------------------------------------------------------------
(* The state the model starts in: the session of an earlier conversation is  *)
(* stored with its one message; the page is mounted, its documents and the   *)
(* panel's session list are loaded, nothing is in flight.                    *)

\* "hi"
Question == <<104, 105>>
\* "OK"
Answer == <<79, 75>>

StoredMessage ==
    [id |-> 1, text |-> Question, sender |-> "user", timestamp |-> 500,
     sourceInfo |-> None]

StoredSessions == {1}

\* the row of the stored message as another client has written it: its
\* source_info is a JSON string
ForeignRow == [MessageToRow(1, StoredMessage) EXCEPT !.source_info = Some(JsonString)]

InitTablesWith(rows) ==
    /\ chat_sessions = [id \in SessionIds |->
                           IF id \in StoredSessions
                           THEN NewSessionRow(Question, <<>>, 0)
                           ELSE NoRow]
    /\ chat_messages = rows
    /\ stored_documents = {"d1"}
    /\ now = StartClock
    /\ nextSession = Cardinality(StoredSessions) + 1
    /\ failures = 0

InitTables == InitTablesWith({ MessageToRow(1, StoredMessage) })

InitPage ==
    /\ documents \in { <<>>, <<"d1">> }
    /\ messages = <<>>
    /\ currentChatId = Null
    /\ isSaving = FALSE
    /\ isWaitingForResponse = FALSE
    /\ saveChatDebounced = None
    /\ sends = {}
    /\ nextMsg = 0
    /\ chatSessions = StoredSessions
    /\ clicks = 0

InitHistory ==
    /\ saveLog = {}
    /\ shown = {}
    /\ origin = {}
    /\ deletedOk = {}

----------------------------------------------------------------------------
(* StoreSpec: two callers use chatHistoryUtils directly, with any arguments *)

StoreCallers == { <<"api", 1>>, <<"api", 2>> }

InputPool ==
    { [id |-> 11, text |-> Question, sender |-> "user", timestamp |-> 2500,
       sourceInfo |-> None],
      [id |-> 12, text |-> Answer, sender |-> "bot", timestamp |-> 1500,
       sourceInfo |-> Some([sourceDocuments |-> <<"A.pdf">>,
                            pageNumber |-> Some(<<51>>),
                            sectionInfo |-> None,
                            paragraphInfo |-> None])],
      [id |-> 13, text |-> Answer, sender |-> "bot", timestamp |-> 2000,
       sourceInfo |-> Some([sourceDocuments |-> <<>>,
                            pageNumber |-> None,
                            sectionInfo |-> None,
                            paragraphInfo |-> None])] }

\* the message sequences with distinct ids, of at most MaxLen messages
InputLogs ==
    { m \in UNION { [1..n -> InputPool] : n \in 0..MaxLen } :
        \A i, j \in 1..Len(m) : i # j => m[i].id # m[j].id }

\* the ids a caller can pass: those of the sessions listed in the store at
\* the start and those createChatSession has generated since
KnownSessions == { id \in SessionIds : id < nextSession }

StoreInit ==
    /\ \E row \in { MessageToRow(1, StoredMessage), ForeignRow } : InitTablesWith({row})
    /\ calls = [c \in StoreCallers |-> IdleFrame]
    /\ InitPage
    /\ InitHistory

\* time passes between two calls; MaxCalls calls are made in all
ApiClock ==
    /\ now + TickMs <= StartClock + MaxCalls * TickMs
    /\ now' = now + TickMs

ApiSave(c) ==
    /\ calls[c].pc \in {"idle", "done"}
    /\ ApiClock
    /\ \E sessionId \in KnownSessions, msgs \in InputLogs : StartSave(c, sessionId, msgs)
    /\ UNCHANGED stored_documents
    /\ UNCHANGED <<chat_sessions, chat_messages, nextSession, pageVars, historyVars>>
    /\ UNCHANGED failures

ApiDelete(c) ==
    /\ calls[c].pc \in {"idle", "done"}
    /\ ApiClock
    /\ \E id \in KnownSessions : StartDelete(c, id, Null)
    /\ UNCHANGED stored_documents
    /\ UNCHANGED <<chat_sessions, chat_messages, nextSession, pageVars, historyVars>>
    /\ UNCHANGED failures

ApiCreate(c) ==
    /\ calls[c].pc \in {"idle", "done"}
    /\ ApiClock
    /\ StartCreate(c, <<>>, Question)
    /\ UNCHANGED stored_documents
    /\ UNCHANGED <<chat_sessions, chat_messages, pageVars, historyVars>>
    /\ UNCHANGED failures

ApiRename(c) ==
    /\ calls[c].pc \in {"idle", "done"}
    /\ ApiClock
    /\ \E id \in KnownSessions : StartRename(c, id, Answer)
    /\ UNCHANGED stored_documents
    /\ UNCHANGED <<chat_sessions, chat_messages, nextSession, pageVars, historyVars>>
    /\ UNCHANGED failures

StoreNext ==
    \/ \E c \in StoreCallers :
         \/ ApiSave(c) \/ SaveUpdate(c) \/ SaveDelete(c) \/ SaveInsert(c)
         \/ ApiRename(c) \/ RenameUpdate(c)
         \/ ApiDelete(c) \/ DeleteMessages(c) \/ DeleteSession(c)
         \/ ApiCreate(c) \/ CreateInsert(c)

StoreSpec == StoreInit /\ [][StoreNext]_vars

----------------------------------------------------------------------------
(* generateResponse(question, documents) of src/src/utils/chatUtils.ts: the  *)
(* texts it answers with and the strings it looks for                        *)

\* the string literals of generateResponse
Texts ==
    [uploadFirst |->
        \* "Please upload some PDF documents first so I can answer your
        \* questions."
        <<80, 108, 101, 97, 115, 101, 32, 117, 112, 108, 111, 97, 100, 32,
        115, 111, 109, 101, 32, 80, 68, 70, 32, 100, 111, 99, 117, 109,
        101, 110, 116, 115, 32, 102, 105, 114, 115, 116, 32, 115, 111, 32,
        73, 32, 99, 97, 110, 32, 97, 110, 115, 119, 101, 114, 32, 121,
        111, 117, 114, 32, 113, 117, 101, 115, 116, 105, 111, 110, 115,
        46>>,
     unknownError |->
        \* "Unknown error"
        <<85, 110, 107, 110, 111, 119, 110, 32, 101, 114, 114, 111, 114>>,
     quota |->
        \* "quota"
        <<113, 117, 111, 116, 97>>,
     status429 |->
        \* "429"
        <<52, 50, 57>>,
     insufficientQuota |->
        \* "insufficient_quota"
        <<105, 110, 115, 117, 102, 102, 105, 99, 105, 101, 110, 116, 95,
        113, 117, 111, 116, 97>>,
     keyNotConfigured |->
        \* "OpenAI API key is not configured"
        <<79, 112, 101, 110, 65, 73, 32, 65, 80, 73, 32, 107, 101, 121,
        32, 105, 115, 32, 110, 111, 116, 32, 99, 111, 110, 102, 105, 103,
        117, 114, 101, 100>>,
     quotaExceededText |->
        \* "I'm sorry, but your OpenAI API quota has been exceeded. Please
        \* check your OpenAI account billing details at
        \* https://platform.openai.com/account/billing."
        <<73, 39, 109, 32, 115, 111, 114, 114, 121, 44, 32, 98, 117, 116,
        32, 121, 111, 117, 114, 32, 79, 112, 101, 110, 65, 73, 32, 65, 80,
        73, 32, 113, 117, 111, 116, 97, 32, 104, 97, 115, 32, 98, 101,
        101, 110, 32, 101, 120, 99, 101, 101, 100, 101, 100, 46, 32, 80,
        108, 101, 97, 115, 101, 32, 99, 104, 101, 99, 107, 32, 121, 111,
        117, 114, 32, 79, 112, 101, 110, 65, 73, 32, 97, 99, 99, 111, 117,
        110, 116, 32, 98, 105, 108, 108, 105, 110, 103, 32, 100, 101, 116,
        97, 105, 108, 115, 32, 97, 116, 32, 104, 116, 116, 112, 115, 58,
        47, 47, 112, 108, 97, 116, 102, 111, 114, 109, 46, 111, 112, 101,
        110, 97, 105, 46, 99, 111, 109, 47, 97, 99, 99, 111, 117, 110,
        116, 47, 98, 105, 108, 108, 105, 110, 103, 46>>,
     keyNotConfiguredText |->
        \* "The OpenAI API key is not configured. Please add your OpenAI API
        \* key to continue using this feature."
        <<84, 104, 101, 32, 79, 112, 101, 110, 65, 73, 32, 65, 80, 73, 32,
        107, 101, 121, 32, 105, 115, 32, 110, 111, 116, 32, 99, 111, 110,
        102, 105, 103, 117, 114, 101, 100, 46, 32, 80, 108, 101, 97, 115,
        101, 32, 97, 100, 100, 32, 121, 111, 117, 114, 32, 79, 112, 101,
        110, 65, 73, 32, 65, 80, 73, 32, 107, 101, 121, 32, 116, 111, 32,
        99, 111, 110, 116, 105, 110, 117, 101, 32, 117, 115, 105, 110,
        103, 32, 116, 104, 105, 115, 32, 102, 101, 97, 116, 117, 114, 101,
        46>>,
     troublePrefix |->
        \* "I'm having trouble connecting to the AI service. Error: "
        <<73, 39, 109, 32, 104, 97, 118, 105, 110, 103, 32, 116, 114, 111,
        117, 98, 108, 101, 32, 99, 111, 110, 110, 101, 99, 116, 105, 110,
        103, 32, 116, 111, 32, 116, 104, 101, 32, 65, 73, 32, 115, 101,
        114, 118, 105, 99, 101, 46, 32, 69, 114, 114, 111, 114, 58, 32>>,
     troubleSuffix |->
        \* ". Please try again in a moment."
        <<46, 32, 80, 108, 101, 97, 115, 101, 32, 116, 114, 121, 32, 97,
        103, 97, 105, 110, 32, 105, 110, 32, 97, 32, 109, 111, 109, 101,
        110, 116, 46>>,
     noResponseText |->
        \* "No response received from the AI service. Please try again."
        <<78, 111, 32, 114, 101, 115, 112, 111, 110, 115, 101, 32, 114,
        101, 99, 101, 105, 118, 101, 100, 32, 102, 114, 111, 109, 32, 116,
        104, 101, 32, 65, 73, 32, 115, 101, 114, 118, 105, 99, 101, 46,
        32, 80, 108, 101, 97, 115, 101, 32, 116, 114, 121, 32, 97, 103,
        97, 105, 110, 46>>,
     serviceErrorPrefix |->
        \* "I encountered an error while processing your question: "
        <<73, 32, 101, 110, 99, 111, 117, 110, 116, 101, 114, 101, 100,
        32, 97, 110, 32, 101, 114, 114, 111, 114, 32, 119, 104, 105, 108,
        101, 32, 112, 114, 111, 99, 101, 115, 115, 105, 110, 103, 32, 121,
        111, 117, 114, 32, 113, 117, 101, 115, 116, 105, 111, 110, 58,
        32>>,
     serviceErrorInfix |->
        \* ". "
        <<46, 32>>,
     invalidFormatText |->
        \* "I received an invalid response format. Please try again."
        <<73, 32, 114, 101, 99, 101, 105, 118, 101, 100, 32, 97, 110, 32,
        105, 110, 118, 97, 108, 105, 100, 32, 114, 101, 115, 112, 111,
        110, 115, 101, 32, 102, 111, 114, 109, 97, 116, 46, 32, 80, 108,
        101, 97, 115, 101, 32, 116, 114, 121, 32, 97, 103, 97, 105, 110,
        46>>,
     couldNotGenerateText |->
        \* "I'm sorry, but I couldn't generate a response at this time.
        \* Please try again in a few moments."
        <<73, 39, 109, 32, 115, 111, 114, 114, 121, 44, 32, 98, 117, 116,
        32, 73, 32, 99, 111, 117, 108, 100, 110, 39, 116, 32, 103, 101,
        110, 101, 114, 97, 116, 101, 32, 97, 32, 114, 101, 115, 112, 111,
        110, 115, 101, 32, 97, 116, 32, 116, 104, 105, 115, 32, 116, 105,
        109, 101, 46, 32, 80, 108, 101, 97, 115, 101, 32, 116, 114, 121,
        32, 97, 103, 97, 105, 110, 32, 105, 110, 32, 97, 32, 102, 101,
        119, 32, 109, 111, 109, 101, 110, 116, 115, 46>>]

\* "Sorry, I encountered an error while processing your question. Please try
\* again."
SendErrorText ==
    <<83, 111, 114, 114, 121, 44, 32, 73, 32, 101, 110, 99, 111, 117, 110,
    116, 101, 114, 101, 100, 32, 97, 110, 32, 101, 114, 114, 111, 114, 32,
    119, 104, 105, 108, 101, 32, 112, 114, 111, 99, 101, 115, 115, 105, 110,
    103, 32, 121, 111, 117, 114, 32, 113, 117, 101, 115, 116, 105, 111, 110,
    46, 32, 80, 108, 101, 97, 115, 101, 32, 116, 114, 121, 32, 97, 103, 97,
    105, 110, 46>>

\* String.prototype.includes
Includes(s, p) ==
    \E i \in 0..(Len(s) - Len(p)) : SubSeq(s, i + 1, i + Len(p)) = p

\* an optional string used as a condition: undefined, null and "" are falsy
Truthy(field) == field # None /\ Len(field[1]) > 0

\* x || undefined
OrUndefined(field) == IF Truthy(field) THEN field ELSE None

\* the JSON object of a response body; a member that is absent is None.
\* sourceDocuments is any JSON value: isArray tells whether it is a list
EmptyPayload ==
    [error |-> None, details |-> None, text |-> None, sourceDocuments |-> None,
     pageNumber |-> None, sectionInfo |-> None, paragraphInfo |-> None]

JsonArray(items) == Some([isArray |-> TRUE, items |-> items])
JsonNoArray == Some([isArray |-> FALSE, items |-> <<>>])

\* what "await supabase.functions.invoke(...)" comes back with: it throws, or
\* answers {data, error}
InvokeResult(data, error) == [thrown |-> FALSE, data |-> data, error |-> error]
InvokeThrown == [thrown |-> TRUE, data |-> None, error |-> None]
InvokeError(message) == InvokeResult(None, Some([message |-> message]))

BotMessage(id, text, t) ==
    [id |-> id, text |-> text, sender |-> "bot", timestamp |-> t, sourceInfo |-> None]

\* generateResponse asking the proxy even when there are no documents
NoDocumentsNever(docs) == FALSE

\* if (documents.length === 0)
NoDocuments(docs) == Len(docs) = 0

\* const errorMessage = error.message || "Unknown error"
ErrorMessageOf(error) == IF Truthy(error.message) THEN error.message[1] ELSE Texts.unknownError

\* the branch "if (error)": the text for the error of the invocation
InvokeErrorText(errorMessage) ==
    IF \/ Includes(errorMessage, Texts.quota)
       \/ Includes(errorMessage, Texts.status429)
       \/ Includes(errorMessage, Texts.insufficientQuota)
    THEN Texts.quotaExceededText
    ELSE IF Includes(errorMessage, Texts.keyNotConfigured)
    THEN Texts.keyNotConfiguredText
    ELSE Texts.troublePrefix \o errorMessage \o Texts.troubleSuffix

\* the branch "if (data.error)": `... ${data.error}. ${data.details || ''}`
DataErrorText(data) ==
    IF Includes(data.error[1], Texts.quota) \/ Includes(data.error[1], Texts.insufficientQuota)
    THEN Texts.quotaExceededText
    ELSE Texts.serviceErrorPrefix \o data.error[1] \o Texts.serviceErrorInfix
            \o (IF Truthy(data.details) THEN data.details[1] ELSE <<>>)

\* sourceInfo of the answer without the page number of the payload
PayloadSourceInfoNoPage(data) ==
    [sourceDocuments |-> IF data.sourceDocuments # None /\ data.sourceDocuments[1].isArray
                         THEN data.sourceDocuments[1].items
                         ELSE <<>>,
     pageNumber |-> None,
     sectionInfo |-> OrUndefined(data.sectionInfo),
     paragraphInfo |-> OrUndefined(data.paragraphInfo)]

\* sourceInfo: { sourceDocuments: Array.isArray(...) ? ... : [], pageNumber:
\* data.pageNumber || undefined, ... }
PayloadSourceInfo(data) ==
    [sourceDocuments |-> IF data.sourceDocuments # None /\ data.sourceDocuments[1].isArray
                         THEN data.sourceDocuments[1].items
                         ELSE <<>>,
     pageNumber |-> OrUndefined(data.pageNumber),
     sectionInfo |-> OrUndefined(data.sectionInfo),
     paragraphInfo |-> OrUndefined(data.paragraphInfo)]

\* generateResponse without its catch block: the exception leaves the function
OnThrownRethrow(id, t) == None

\* catch (error) { ...; return {...} }
OnThrown(id, t) == Some(BotMessage(id, Texts.couldNotGenerateText, t))

\* generateResponse(question, documents) for the result the invocation came
\* back with: the ChatMessage the promise resolves to, None when it rejects.
\* The question goes into the request and into nothing else
GenerateResponse(docs, result, id, t) ==
    IF NoDocuments(docs) THEN Some(BotMessage(id, Texts.uploadFirst, t))
    ELSE IF result.thrown THEN OnThrown(id, t)
    ELSE IF result.error # None
    THEN Some(BotMessage(id, InvokeErrorText(ErrorMessageOf(result.error[1])), t))
    ELSE IF result.data = None THEN Some(BotMessage(id, Texts.noResponseText, t))
    ELSE IF Truthy(result.data[1].error)
    THEN Some(BotMessage(id, DataErrorText(result.data[1]), t))
    ELSE IF ~Truthy(result.data[1].text) THEN Some(BotMessage(id, Texts.invalidFormatText, t))
    ELSE Some([BotMessage(id, result.data[1].text[1], t) EXCEPT
                  !.sourceInfo = Some(PayloadSourceInfo(result.data[1]))])

----------------------------------------------------------------------------
(* The generate-ai-response function the request is sent to                  *)
(* (src/supabase/functions/generate-ai-response/index.ts)                    *)

\* the string literals of the handler
FunctionTexts ==
    [questionRequired |->
        \* "Question is required"
        <<81, 117, 101, 115, 116, 105, 111, 110, 32, 105, 115, 32, 114,
        101, 113, 117, 105, 114, 101, 100>>,
     noDocumentsFound |->
        \* "No documents found with the provided IDs"
        <<78, 111, 32, 100, 111, 99, 117, 109, 101, 110, 116, 115, 32,
        102, 111, 117, 110, 100, 32, 119, 105, 116, 104, 32, 116, 104,
        101, 32, 112, 114, 111, 118, 105, 100, 101, 100, 32, 73, 68, 115>>,
     checkLogs |->
        \* "Please check the Edge Function logs for more information."
        <<80, 108, 101, 97, 115, 101, 32, 99, 104, 101, 99, 107, 32, 116,
        104, 101, 32, 69, 100, 103, 101, 32, 70, 117, 110, 99, 116, 105,
        111, 110, 32, 108, 111, 103, 115, 32, 102, 111, 114, 32, 109, 111,
        114, 101, 32, 105, 110, 102, 111, 114, 109, 97, 116, 105, 111,
        110, 46>>,
     quotaExceededError |->
        \* "OpenAI API quota exceeded"
        <<79, 112, 101, 110, 65, 73, 32, 65, 80, 73, 32, 113, 117, 111,
        116, 97, 32, 101, 120, 99, 101, 101, 100, 101, 100>>,
     quotaExceededDetails |->
        \* "Your OpenAI API key has insufficient quota. Please check your
        \* billing details at https://platform.openai.com/account/billing."
        <<89, 111, 117, 114, 32, 79, 112, 101, 110, 65, 73, 32, 65, 80,
        73, 32, 107, 101, 121, 32, 104, 97, 115, 32, 105, 110, 115, 117,
        102, 102, 105, 99, 105, 101, 110, 116, 32, 113, 117, 111, 116, 97,
        46, 32, 80, 108, 101, 97, 115, 101, 32, 99, 104, 101, 99, 107, 32,
        121, 111, 117, 114, 32, 98, 105, 108, 108, 105, 110, 103, 32, 100,
        101, 116, 97, 105, 108, 115, 32, 97, 116, 32, 104, 116, 116, 112,
        115, 58, 47, 47, 112, 108, 97, 116, 102, 111, 114, 109, 46, 111,
        112, 101, 110, 97, 105, 46, 99, 111, 109, 47, 97, 99, 99, 111,
        117, 110, 116, 47, 98, 105, 108, 108, 105, 110, 103, 46>>,
     openAIErrorPrefix |->
        \* "OpenAI API error: "
        <<79, 112, 101, 110, 65, 73, 32, 65, 80, 73, 32, 101, 114, 114,
        111, 114, 58, 32>>,
     failedToConnect |->
        \* "Failed to connect to OpenAI API"
        <<70, 97, 105, 108, 101, 100, 32, 116, 111, 32, 99, 111, 110, 110,
        101, 99, 116, 32, 116, 111, 32, 79, 112, 101, 110, 65, 73, 32, 65,
        80, 73>>,
     notFormattedText |->
        \* "I couldn't generate a properly formatted response. Please try
        \* again."
        <<73, 32, 99, 111, 117, 108, 100, 110, 39, 116, 32, 103, 101, 110,
        101, 114, 97, 116, 101, 32, 97, 32, 112, 114, 111, 112, 101, 114,
        108, 121, 32, 102, 111, 114, 109, 97, 116, 116, 101, 100, 32, 114,
        101, 115, 112, 111, 110, 115, 101, 46, 32, 80, 108, 101, 97, 115,
        101, 32, 116, 114, 121, 32, 97, 103, 97, 105, 110, 46>>,
     processingErrorText |->
        \* "Sorry, I encountered an error processing the response. Please try
        \* again."
        <<83, 111, 114, 114, 121, 44, 32, 73, 32, 101, 110, 99, 111, 117,
        110, 116, 101, 114, 101, 100, 32, 97, 110, 32, 101, 114, 114, 111,
        114, 32, 112, 114, 111, 99, 101, 115, 115, 105, 110, 103, 32, 116,
        104, 101, 32, 114, 101, 115, 112, 111, 110, 115, 101, 46, 32, 80,
        108, 101, 97, 115, 101, 32, 116, 114, 121, 32, 97, 103, 97, 105,
        110, 46>>,
     documentIdRequired |->
        \* "At least one document ID is required"
        <<65, 116, 32, 108, 101, 97, 115, 116, 32, 111, 110, 101, 32, 100,
        111, 99, 117, 109, 101, 110, 116, 32, 73, 68, 32, 105, 115, 32,
        114, 101, 113, 117, 105, 114, 101, 100>>]

\* `${response.status}`
RECURSIVE Decimal(_)
Decimal(n) == IF n < 10 THEN <<48 + n>> ELSE Decimal(n \div 10) \o <<48 + (n % 10)>>

Response(status, body) == [status |-> status, body |-> body]

ErrorBody(error, details) ==
    [EmptyPayload EXCEPT !.error = Some(error), !.details = Some(details)]

\* response.ok
Ok(status) == status >= 200 /\ status <= 299

\* what fetch to the OpenAI API gave: it threw, or a response with a status,
\* the error object of its body (type and message, absent when the body is
\* no JSON) and, when ok, choices[0].message.content
OpenAIThrown(message) ==
    [thrown |-> TRUE, status |-> 0, statusText |-> <<>>, errorType |-> None,
     errorMessage |-> Some(message), content |-> None]
OpenAIError(status, statusText, errorType, errorMessage) ==
    [thrown |-> FALSE, status |-> status, statusText |-> statusText,
     errorType |-> errorType, errorMessage |-> errorMessage, content |-> None]
OpenAIAnswer(content) ==
    [thrown |-> FALSE, status |-> 200, statusText |-> <<79, 75>>, errorType |-> None,
     errorMessage |-> None, content |-> content]

\* content that JSON.parse turns into an object, and content it rejects
JsonContent(object) == Some([json |-> Some(object), raw |-> <<>>])
TextContent(raw) == Some([json |-> None, raw |-> raw])

\* the "Handle quota exceeded specifically" condition
IsQuotaError(openai) ==
    \/ openai.status = 429
    \/ openai.errorType = Some(Texts.insufficientQuota)
    \/ (Truthy(openai.errorMessage) /\ Includes(openai.errorMessage[1], Texts.quota))

\* a required field left as the model's content has it
OrAbsent(field) == field

\* x || "" and x || [] of "Ensure all required fields exist"
OrEmptyString(field) == IF Truthy(field) THEN field ELSE Some(<<>>)
OrEmptyArray(field) == IF field # None THEN field ELSE JsonArray(<<>>)

\* the body answered for choices[0].message.content
ParsedResponse(content) ==
    IF content = None
    THEN [EmptyPayload EXCEPT !.text = Some(FunctionTexts.processingErrorText),
                              !.sourceDocuments = JsonArray(<<>>),
                              !.pageNumber = Some(<<>>),
                              !.sectionInfo = Some(<<>>),
                              !.paragraphInfo = Some(<<>>)]
    ELSE LET parsed == IF content[1].json # None
                       THEN content[1].json[1]
                       ELSE [EmptyPayload EXCEPT !.text = Some(content[1].raw)]
         IN [parsed EXCEPT
                !.text = IF Truthy(parsed.text) THEN parsed.text
                         ELSE Some(FunctionTexts.notFormattedText),
                !.sourceDocuments = OrEmptyArray(parsed.sourceDocuments),
                !.pageNumber = OrEmptyString(parsed.pageNumber),
                !.sectionInfo = OrEmptyString(parsed.sectionInfo),
                !.paragraphInfo = OrEmptyString(parsed.paragraphInfo)]

\* the handler of serve(): the response to {question, documentIds} when the
\* documents table, the OPENAI_API_KEY setting and the OpenAI API are as in
\* upstream.  The member "message" of the 503 body is read by nobody
Serve(question, documentIds, upstream) ==
    IF Len(question) = 0
    THEN Response(500, ErrorBody(FunctionTexts.questionRequired, FunctionTexts.checkLogs))
    ELSE IF Len(documentIds) = 0
    THEN Response(500, ErrorBody(FunctionTexts.documentIdRequired, FunctionTexts.checkLogs))
    ELSE IF ~upstream.documentsFound
    THEN Response(500, ErrorBody(FunctionTexts.noDocumentsFound, FunctionTexts.checkLogs))
    ELSE IF ~upstream.keyConfigured
    THEN Response(500, ErrorBody(Texts.keyNotConfigured, FunctionTexts.checkLogs))
    ELSE IF upstream.openai.thrown
    THEN Response(503, ErrorBody(FunctionTexts.failedToConnect, upstream.openai.errorMessage[1]))
    ELSE IF ~Ok(upstream.openai.status)
    THEN IF IsQuotaError(upstream.openai)
         THEN Response(429, ErrorBody(FunctionTexts.quotaExceededError, FunctionTexts.quotaExceededDetails))
         ELSE Response(upstream.openai.status,
                       ErrorBody(FunctionTexts.openAIErrorPrefix \o Decimal(upstream.openai.status)
                                    \o <<32>> \o upstream.openai.statusText,
                                 IF Truthy(upstream.openai.errorMessage)
                                 THEN upstream.openai.errorMessage[1]
                                 ELSE Texts.unknownError))
    ELSE Response(200, ParsedResponse(upstream.openai.content))

----------------------------------------------------------------------------
(* What the request of generateResponse can meet *)

\* texts of the OpenAI API, of the client library and of the store, names of
\* uploaded files, and questions of 30 and of 31 characters, as examples
Samples ==
    [nonTwoXx |->
        \* "Edge Function returned a non-2xx status code"
        <<69, 100, 103, 101, 32, 70, 117, 110, 99, 116, 105, 111, 110, 32,
        114, 101, 116, 117, 114, 110, 101, 100, 32, 97, 32, 110, 111, 110,
        45, 50, 120, 120, 32, 115, 116, 97, 116, 117, 115, 32, 99, 111,
        100, 101>>,
     failedToSend |->
        \* "Failed to send a request to the Edge Function"
        <<70, 97, 105, 108, 101, 100, 32, 116, 111, 32, 115, 101, 110,
        100, 32, 97, 32, 114, 101, 113, 117, 101, 115, 116, 32, 116, 111,
        32, 116, 104, 101, 32, 69, 100, 103, 101, 32, 70, 117, 110, 99,
        116, 105, 111, 110>>,
     tooManyRequests |->
        \* "Too Many Requests"
        <<84, 111, 111, 32, 77, 97, 110, 121, 32, 82, 101, 113, 117, 101,
        115, 116, 115>>,
     rateLimitType |->
        \* "rate_limit_exceeded"
        <<114, 97, 116, 101, 95, 108, 105, 109, 105, 116, 95, 101, 120,
        99, 101, 101, 100, 101, 100>>,
     rateLimitMessage |->
        \* "Rate limit reached for requests"
        <<82, 97, 116, 101, 32, 108, 105, 109, 105, 116, 32, 114, 101, 97,
        99, 104, 101, 100, 32, 102, 111, 114, 32, 114, 101, 113, 117, 101,
        115, 116, 115>>,
     quotaMessage |->
        \* "You exceeded your current quota"
        <<89, 111, 117, 32, 101, 120, 99, 101, 101, 100, 101, 100, 32,
        121, 111, 117, 114, 32, 99, 117, 114, 114, 101, 110, 116, 32, 113,
        117, 111, 116, 97>>,
     unauthorized |->
        \* "Samples.unauthorized"
        <<85, 110, 97, 117, 116, 104, 111, 114, 105, 122, 101, 100>>,
     invalidKeyType |->
        \* "invalid_api_key"
        <<105, 110, 118, 97, 108, 105, 100, 95, 97, 112, 105, 95, 107,
        101, 121>>,
     invalidKeyMessage |->
        \* "Incorrect API key provided"
        <<73, 110, 99, 111, 114, 114, 101, 99, 116, 32, 65, 80, 73, 32,
        107, 101, 121, 32, 112, 114, 111, 118, 105, 100, 101, 100>>,
     serverError |->
        \* "Internal Server Error"
        <<73, 110, 116, 101, 114, 110, 97, 108, 32, 83, 101, 114, 118,
        101, 114, 32, 69, 114, 114, 111, 114>>,
     fetchFailed |->
        \* "fetch failed"
        <<102, 101, 116, 99, 104, 32, 102, 97, 105, 108, 101, 100>>,
     pageThree |->
        \* "3"
        <<51>>,
     fileA |->
        \* "a.pdf"
        <<97, 46, 112, 100, 102>>,
     fileB |->
        \* "b.pdf"
        <<98, 46, 112, 100, 102>>,
     storeMessage |->
        \* "duplicate key value"
        <<100, 117, 112, 108, 105, 99, 97, 116, 101, 32, 107, 101, 121,
        32, 118, 97, 108, 117, 101>>,
     question30 |->
        \* "What does section 4 say on fee"
        <<87, 104, 97, 116, 32, 100, 111, 101, 115, 32, 115, 101, 99, 116,
        105, 111, 110, 32, 52, 32, 115, 97, 121, 32, 111, 110, 32, 102,
        101, 101>>,
     question31 |->
        \* "What does section 4 say on fees"
        <<87, 104, 97, 116, 32, 100, 111, 101, 115, 32, 115, 101, 99, 116,
        105, 111, 110, 32, 52, 32, 115, 97, 121, 32, 111, 110, 32, 102,
        101, 101, 115>>]

\* the answer of the model as the function asks for it, and ones that lack
\* members or are no JSON at all
FullAnswer ==
    [EmptyPayload EXCEPT !.text = Some(Answer),
                         !.sourceDocuments = JsonArray(<<"A.pdf">>),
                         !.pageNumber = Some(Samples.pageThree)]

Contents ==
    { JsonContent(FullAnswer),
      JsonContent([EmptyPayload EXCEPT !.text = Some(Answer),
                                       !.sourceDocuments = JsonNoArray]),
      JsonContent(EmptyPayload),
      TextContent(Answer),
      None }

OpenAIOutcomes ==
    { OpenAIThrown(Samples.fetchFailed),
      OpenAIError(429, Samples.tooManyRequests, Some(Samples.rateLimitType), Some(Samples.rateLimitMessage)),
      OpenAIError(429, Samples.tooManyRequests, Some(Texts.insufficientQuota), Some(Samples.quotaMessage)),
      OpenAIError(401, Samples.unauthorized, Some(Samples.invalidKeyType), Some(Samples.invalidKeyMessage)),
      OpenAIError(500, Samples.serverError, None, None) }
        \cup { OpenAIAnswer(content) : content \in Contents }

Upstream(documentsFound, keyConfigured, openai) ==
    [documentsFound |-> documentsFound, keyConfigured |-> keyConfigured,
     openai |-> openai]

Upstreams ==
    { Upstream(FALSE, TRUE, OpenAIAnswer(JsonContent(FullAnswer))),
      Upstream(TRUE, FALSE, OpenAIAnswer(JsonContent(FullAnswer))) }
        \cup { Upstream(TRUE, TRUE, openai) : openai \in OpenAIOutcomes }

\* supabase.functions.invoke for the response of the function: the body of a
\* 2xx response is the data.  For any other status the client library of the
\* build answers an error with a message of its own, the body not in it, or
\* hands the body on as data
FunctionsInvoke(response) ==
    IF Ok(response.status)
    THEN { InvokeResult(Some(response.body), None) }
    ELSE { InvokeError(Some(Samples.nonTwoXx)), InvokeResult(Some(response.body), None) }

\* the results of an invocation the function had no part in: an exception
\* inside the try block (doc.content of a document is null), the request not
\* sent, an error without message, an empty answer, and bodies of other makers
OtherResults ==
    { InvokeThrown,
      InvokeError(Some(Samples.failedToSend)),
      InvokeError(None),
      InvokeResult(None, None),
      InvokeResult(Some(EmptyPayload), None),
      InvokeResult(Some([EmptyPayload EXCEPT !.text = Some(Answer)]), None),
      InvokeResult(Some([EmptyPayload EXCEPT !.error = Some(Texts.insufficientQuota)]), None) }

----------------------------------------------------------------------------
(* The Index page: its state, the save effect, and what a render shows *)

SaveCaller == <<"save", 0>>
SelectCaller(chatId) == <<"select", chatId>>
DeleteCaller(chatId) == <<"delete", chatId>>
CreateCaller(msgId) == <<"create", msgId>>

\* Math.random().toString(36).substr(2, 9): an id no message has yet
NewId == StoredMessage.id + nextMsg + 1
NewIds == (StoredMessage.id + 1)..(StoredMessage.id + MaxNewMsgs)

PageCallers ==
    {SaveCaller} \cup { SelectCaller(s) : s \in StoredSessions }
                 \cup { DeleteCaller(s) : s \in StoredSessions }
                 \cup { CreateCaller(m) : m \in NewIds }


\* the save effect without its check of isSaving
RunSaveEffectWhileSaving(chatId, msgs, saving) ==
    IF chatId = Null \/ Len(msgs) = 0
    THEN None
    ELSE Some([chatId |-> chatId, messages |-> msgs])

\* the body of the save effect: nothing is scheduled without a session, without
\* messages, or while isSaving; else setTimeout(save of this render's
\* currentChatId and messages, 1000).  How long the 1000 ms are against the
\* other events is open: a pending timer fires at any later step, unless the
\* cleanup of the effect has cleared it first
RunSaveEffect(chatId, msgs, saving) ==
    IF chatId = Null \/ Len(msgs) = 0 \/ saving
    THEN None
    ELSE Some([chatId |-> chatId, messages |-> msgs])

Shown(chatId, msgs) ==
    IF chatId = Null THEN {} ELSE { <<chatId, id>> : id \in IdsOf(msgs) }

\* a render after currentChatId or messages were set: the cleanup of the save
\* effect clears the pending timer and the effect runs again
Render(chatId, msgs) ==
    /\ currentChatId' = chatId
    /\ messages' = msgs
    /\ saveChatDebounced' = RunSaveEffect(chatId, msgs, isSaving)
    /\ shown' = shown \cup Shown(chatId, msgs)

\* handleSendMessage passing the question on as the title
TitleOfUncut(text) == text

\* let title = text.length > 30 ? `${text.substring(0, 30)}...` : text
TitleMax == 30
Ellipsis == <<46, 46, 46>>
TitleOf(text) ==
    IF Len(text) > TitleMax THEN SubSeq(text, 1, TitleMax) \o Ellipsis ELSE text

UserMessage(id, text, t) ==
    [id |-> id, text |-> text, sender |-> "user", timestamp |-> t, sourceInfo |-> None]

\* the results of the invocation the page meets: the answer of the model,
\* a response that is not 2xx, and a body without text
GenerateOutcomes ==
    { InvokeResult(Some(ParsedResponse(JsonContent(FullAnswer))), None),
      InvokeError(Some(Samples.nonTwoXx)),
      InvokeResult(Some(EmptyPayload), None) }

\* generateResponse called without documents makes no invocation
NotInvoked == InvokeResult(None, None)

\* const botMessage = await generateResponse(...), or the errorMessage of the
\* catch block when that promise rejects
BotMessageOrError(generated, id, t) ==
    IF generated = None THEN BotMessage(id, SendErrorText, t) ELSE generated[1]

\* a handleSendMessage call at an await: invocations counts the requests
\* its generateResponse calls have made
Send(msgId, text, pc, chatId, docs) ==
    [msg |-> msgId, text |-> text, pc |-> pc, chatId |-> chatId, documents |-> docs,
     invocations |-> IF pc = "generate" THEN 1 ELSE 0]

\* handleSendMessage calling generateResponse again after a failure
AfterResponseRetrying(s, outcome) ==
    IF outcome.error # None THEN { [s EXCEPT !.invocations = @ + 1] } ELSE {}

\* after "await generateResponse(...)" the call appends the message and
\* ends, whatever the message says: nothing of it stays under way
AfterResponse(s, outcome) == {}

\* ChatInterface.handleSubmit without its check of isWaitingForResponse
HandleSubmitGuardInputOnly(input, waiting) == Len(input) > 0

\* if (input.trim() && !isWaitingForResponse)
HandleSubmitGuard(input, waiting) == Len(input) > 0 /\ ~waiting

\* handleSendMessage without its finally block
FinallyMissing(waiting) == waiting

\* finally { setIsWaitingForResponse(false) }
Finally(waiting) == FALSE

\* the bot message is appended to whatever messages holds when the answer
\* comes: setMessages((prev) => [...prev, botMessage]), then the finally block
AppendBotMessage(chatId, base, docs, outcome, requestOf) ==
    LET bot == BotMessageOrError(GenerateResponse(docs, outcome, NewId, now), NewId, now)
    IN /\ Render(chatId, Append(base, bot))
       /\ isWaitingForResponse' = Finally(isWaitingForResponse)
       /\ nextMsg' = nextMsg + 1
       /\ origin' = origin \cup { <<bot.id, requestOf>> }

----------------------------------------------------------------------------
(* handleSubmit and handleSendMessage *)

\* from the click to the first await of handleSendMessage: of createChatSession
\* without a session, of the generation request with documents; without
\* documents generateResponse answers at once and the call runs to its end
HandleSubmit(text) ==
    /\ HandleSubmitGuard(text, isWaitingForResponse)
    /\ nextMsg + Cardinality(sends) + 2 <= MaxNewMsgs
    /\ LET userMessage == UserMessage(NewId, text, now)
           withUser == Append(messages, userMessage)
       IN IF currentChatId = Null
          THEN /\ StartCreate(CreateCaller(userMessage.id), documents, TitleOf(text))
               /\ Render(currentChatId, withUser)
               /\ isWaitingForResponse' = TRUE
               /\ nextMsg' = nextMsg + 1
               /\ sends' = sends \cup {Send(userMessage.id, text, "create", Null,
                                            documents)}
               /\ UNCHANGED origin
          ELSE IF Len(documents) = 0
          THEN /\ LET bot == BotMessageOrError(GenerateResponse(documents, NotInvoked,
                                                                NewId + 1, now),
                                               NewId + 1, now)
                  IN /\ Render(currentChatId, Append(withUser, bot))
                     /\ origin' = origin \cup { <<bot.id, currentChatId>> }
               /\ isWaitingForResponse' = Finally(isWaitingForResponse)
               /\ nextMsg' = nextMsg + 2
               /\ UNCHANGED <<sends, calls, nextSession>>
          ELSE /\ Render(currentChatId, withUser)
               /\ isWaitingForResponse' = TRUE
               /\ nextMsg' = nextMsg + 1
               /\ sends' = sends \cup {Send(userMessage.id, text, "generate", currentChatId,
                                            documents)}
               /\ UNCHANGED <<origin, calls, nextSession>>
    /\ ClockRead
    /\ UNCHANGED stored_documents
    /\ UNCHANGED <<chat_sessions, chat_messages, documents, isSaving, chatSessions,
                   saveLog, deletedOk>>
    /\ UNCHANGED <<failures, clicks>>

\* createChatSession has returned: if (chatSession) setCurrentChatId(chatSession.id),
\* then generateResponse(text, documents, ...) with the documents of the click
CreateResume(s) ==
    /\ s.pc = "create"
    /\ calls[CreateCaller(s.msg)].fn = "create"
    /\ calls[CreateCaller(s.msg)].pc = "done"
    /\ LET f == calls[CreateCaller(s.msg)]
           chatId == IF f.result = "true" THEN f.sessionId ELSE currentChatId
           requestOf == IF f.result = "true" THEN f.sessionId ELSE Null
       IN IF Len(s.documents) = 0
          THEN /\ AppendBotMessage(chatId, messages, s.documents, NotInvoked, requestOf)
               /\ sends' = sends \ {s}
               /\ ClockRead
          ELSE /\ Render(chatId, messages)
               /\ sends' = (sends \ {s})
                              \cup {Send(s.msg, s.text, "generate", requestOf, s.documents)}
               /\ UNCHANGED <<isWaitingForResponse, nextMsg, origin, now>>
    /\ calls' = [calls EXCEPT ![CreateCaller(s.msg)] = IdleFrame]
    /\ UNCHANGED stored_documents
    /\ UNCHANGED <<chat_sessions, chat_messages, nextSession, documents, isSaving,
                   chatSessions, saveLog, deletedOk>>
    /\ UNCHANGED <<failures, clicks>>

\* the generation request has answered
GenerateReturn(s) ==
    /\ s.pc = "generate"
    /\ \E outcome \in GenerateOutcomes :
         /\ AppendBotMessage(currentChatId, messages, s.documents, outcome, s.chatId)
         /\ sends' = (sends \ {s}) \cup AfterResponse(s, outcome)
    /\ ClockRead
    /\ UNCHANGED stored_documents
    /\ UNCHANGED <<chat_sessions, chat_messages, nextSession, calls, documents, isSaving,
                   chatSessions, saveLog, deletedOk>>
    /\ UNCHANGED <<failures, clicks>>

\* the handleSendMessage call of the user message msgId goes on
HandleSendMessageAfterCreate(msgId) ==
    \E s \in sends : s.msg = msgId /\ CreateResume(s)

HandleSendMessageAfterGenerate(msgId) ==
    \E s \in sends : s.msg = msgId /\ GenerateReturn(s)

----------------------------------------------------------------------------
(* The debounced save *)

\* the timer fires: setIsSaving(true); saveChatMessages(currentChatId, messages)
\* with the values of the render that set the timer
TimerFire ==
    /\ saveChatDebounced # None
    /\ LET timer == saveChatDebounced[1]
       IN /\ StartSave(SaveCaller, timer.chatId, timer.messages)
          /\ saveLog' = saveLog \cup Shown(timer.chatId, timer.messages)
    /\ isSaving' = TRUE
    /\ saveChatDebounced' = None
    /\ UNCHANGED stored_documents
    /\ UNCHANGED <<chat_sessions, chat_messages, now, nextSession, documents, messages,
                   currentChatId, isWaitingForResponse, sends, nextMsg, chatSessions,
                   shown, origin, deletedOk>>
    /\ UNCHANGED <<failures, clicks>>

\* saveChatMessages has returned: setIsSaving(false); isSaving is not among the
\* dependencies of the save effect, which does not run again
SaveResume ==
    /\ calls[SaveCaller].fn = "save" /\ calls[SaveCaller].pc = "done"
    /\ isSaving' = FALSE
    /\ calls' = [calls EXCEPT ![SaveCaller] = IdleFrame]
    /\ UNCHANGED stored_documents
    /\ UNCHANGED <<chat_sessions, chat_messages, now, nextSession, documents, messages,
                   currentChatId, isWaitingForResponse, saveChatDebounced, sends,
                   nextMsg, chatSessions, historyVars>>
    /\ UNCHANGED <<failures, clicks>>

----------------------------------------------------------------------------
(* handleSelectChat, handleNewChat, handleDeleteChat *)

\* the user clicks on the history panel: at most MaxClicks times
Click ==
    /\ clicks < MaxClicks
    /\ clicks' = clicks + 1

\* a click on a session of the panel: if (chatId === currentChatId) return
HandleSelectChat(chatId) ==
    /\ chatId \in chatSessions
    /\ chatId # currentChatId
    /\ calls[SelectCaller(chatId)].fn = "none"
    /\ StartGetSession(SelectCaller(chatId), chatId)
    /\ Click
    /\ UNCHANGED stored_documents
    /\ UNCHANGED <<chat_sessions, chat_messages, now, nextSession, pageState, historyVars>>
    /\ UNCHANGED failures

\* getChatSession has returned: if (!session) return, else getChatMessages
SelectSessionResume(chatId) ==
    /\ calls[SelectCaller(chatId)].fn = "getSession"
    /\ calls[SelectCaller(chatId)].pc = "done"
    /\ IF calls[SelectCaller(chatId)].result = "false"
       THEN calls' = [calls EXCEPT ![SelectCaller(chatId)] = IdleFrame]
       ELSE StartGetMessages(SelectCaller(chatId), chatId)
    /\ UNCHANGED stored_documents
    /\ UNCHANGED <<chat_sessions, chat_messages, now, nextSession, pageVars, historyVars>>
    /\ UNCHANGED failures

\* getChatMessages has returned: setCurrentChatId(chatId); setMessages(chatMessages)
SelectMessagesResume(chatId) ==
    /\ calls[SelectCaller(chatId)].fn = "getMessages"
    /\ calls[SelectCaller(chatId)].pc = "done"
    /\ Render(chatId, calls[SelectCaller(chatId)].messages)
    /\ calls' = [calls EXCEPT ![SelectCaller(chatId)] = IdleFrame]
    /\ UNCHANGED stored_documents
    /\ UNCHANGED <<chat_sessions, chat_messages, now, nextSession, documents, isSaving,
                   isWaitingForResponse, sends, nextMsg, chatSessions, saveLog, origin,
                   deletedOk>>
    /\ UNCHANGED <<failures, clicks>>

\* setCurrentChatId(null); setMessages([])
HandleNewChat ==
    /\ Render(Null, <<>>)
    /\ Click
    /\ UNCHANGED <<storeVars, documents, isSaving, isWaitingForResponse, sends, nextMsg,
                   chatSessions, saveLog, origin, deletedOk>>

\* a click on the bin of a session, confirmed; currentChatId is the one of the
\* render of the click
HandleDeleteChat(chatId) ==
    /\ chatId \in chatSessions
    /\ calls[DeleteCaller(chatId)].fn = "none"
    /\ StartDelete(DeleteCaller(chatId), chatId, currentChatId)
    /\ Click
    /\ UNCHANGED stored_documents
    /\ UNCHANGED <<chat_sessions, chat_messages, now, nextSession, pageState, historyVars>>
    /\ UNCHANGED failures

\* deleteChatSession has returned: if (success) the session leaves the panel,
\* and if (chatId === currentChatId) onNewChat()
DeleteResume(chatId) ==
    /\ calls[DeleteCaller(chatId)].fn = "delete"
    /\ calls[DeleteCaller(chatId)].pc = "done"
    /\ LET f == calls[DeleteCaller(chatId)]
       IN IF f.result = "true"
          THEN /\ chatSessions' = chatSessions \ {chatId}
               /\ IF chatId = f.current
                  THEN Render(Null, <<>>)
                  ELSE UNCHANGED <<currentChatId, messages, saveChatDebounced, shown>>
          ELSE UNCHANGED <<chatSessions, currentChatId, messages, saveChatDebounced, shown>>
    /\ calls' = [calls EXCEPT ![DeleteCaller(chatId)] = IdleFrame]
    /\ UNCHANGED stored_documents
    /\ UNCHANGED <<chat_sessions, chat_messages, now, nextSession, documents, isSaving,
                   isWaitingForResponse, sends, nextMsg, saveLog, origin, deletedOk>>
    /\ UNCHANGED <<failures, clicks>>

----------------------------------------------------------------------------
(* Spec: one page on the store *)

Init ==
    /\ InitTables
    /\ calls = [c \in PageCallers |-> IdleFrame]
    /\ InitPage
    /\ InitHistory

Next ==
    \/ HandleSubmit(Question)
    \/ \E msgId \in NewIds : HandleSendMessageAfterCreate(msgId)
    \/ \E msgId \in NewIds : HandleSendMessageAfterGenerate(msgId)
    \/ TimerFire
    \/ SaveResume
    \/ \E chatId \in StoredSessions : HandleSelectChat(chatId)
    \/ \E chatId \in StoredSessions : SelectSessionResume(chatId)
    \/ \E chatId \in StoredSessions : SelectMessagesResume(chatId)
    \/ HandleNewChat
    \/ \E chatId \in StoredSessions : HandleDeleteChat(chatId)
    \/ \E chatId \in StoredSessions : DeleteResume(chatId)
    \/ \E c \in PageCallers : SaveUpdate(c)
    \/ \E c \in PageCallers : SaveDelete(c)
    \/ \E c \in PageCallers : SaveInsert(c)
    \/ \E c \in PageCallers : DeleteMessages(c)
    \/ \E c \in PageCallers : DeleteSession(c)
    \/ \E c \in PageCallers : GetSession(c)
    \/ \E c \in PageCallers : GetMessages(c)
    \/ \E c \in PageCallers : CreateInsert(c)

Spec == Init /\ [][Next]_vars

\* handleSendMessage and what changes the state it reads and writes: the
\* clicks that change session and messages, and the store requests of these
\* handlers.  The debounced save is left aside: it writes none of messages,
\* currentChatId, isWaitingForResponse; with it out of the way the user can
\* send questions of any length
SendNext ==
    \/ \E text \in {Question, Samples.question30, Samples.question31} : HandleSubmit(text)
    \/ \E msgId \in NewIds : HandleSendMessageAfterCreate(msgId)
    \/ \E msgId \in NewIds : HandleSendMessageAfterGenerate(msgId)
    \/ \E chatId \in StoredSessions : HandleSelectChat(chatId)
    \/ \E chatId \in StoredSessions : SelectSessionResume(chatId)
    \/ \E chatId \in StoredSessions : SelectMessagesResume(chatId)
    \/ HandleNewChat
    \/ \E chatId \in StoredSessions : HandleDeleteChat(chatId)
    \/ \E chatId \in StoredSessions : DeleteResume(chatId)
    \/ \E c \in PageCallers : DeleteMessages(c)
    \/ \E c \in PageCallers : DeleteSession(c)
    \/ \E c \in PageCallers : GetSession(c)
    \/ \E c \in PageCallers : GetMessages(c)
    \/ \E c \in PageCallers : CreateInsert(c)

\* the store answers every createChatSession, the invocation comes back, and
\* the event loop runs the continuation of handleSendMessage
LiveSpec ==
    /\ Init
    /\ [][SendNext]_vars
    /\ WF_vars(\E m \in NewIds : CreateInsert(CreateCaller(m)))
    /\ WF_vars(\E m \in NewIds : HandleSendMessageAfterCreate(m))
    /\ WF_vars(\E m \in NewIds : HandleSendMessageAfterGenerate(m))

----------------------------------------------------------------------------
(* GenSpec: two callers use generateResponse directly, with any question *)

GenCallers == { <<"ask", 1>>, <<"ask", 2>> }

Questions == { <<>>, Question, Texts.quota }

DocumentLists == { <<>>, <<"d1">>, <<"d1", "d2">> }

\* the promise of generateResponse settles
Settle(frame, result) ==
    LET message == GenerateResponse(frame.documentIds, result, NewId, now)
    IN [Done(frame, IF message = None THEN "rejected" ELSE "resolved") EXCEPT
           !.message = message]

\* generateResponse(question, documents) up to its await: without documents
\* it returns at once, else the request is made
AskGenerate(c) ==
    /\ calls[c].pc \in {"idle", "done"}
    /\ \E question \in Questions, docs \in DocumentLists :
         LET f == [Frame("generate", "invoke", Null) EXCEPT
                      !.question = question, !.documentIds = docs]
         IN calls' = [calls EXCEPT ![c] =
                         IF NoDocuments(docs)
                         THEN Settle(f, InvokeResult(None, None))
                         ELSE [f EXCEPT !.invocations = 1]]
    /\ UNCHANGED stored_documents
    /\ UNCHANGED <<chat_sessions, chat_messages, now, nextSession, failures,
                   pageVars, historyVars>>

\* the function handles the request
ServeRequest(c) ==
    /\ calls[c].fn = "generate" /\ calls[c].pc = "invoke"
    /\ \E upstream \in Upstreams :
         calls' = [calls EXCEPT ![c] =
                      [@ EXCEPT !.pc = "answer",
                                !.upstream = Some(upstream),
                                !.response = Some(Serve(calls[c].question,
                                                        calls[c].documentIds,
                                                        upstream))]]
    /\ UNCHANGED stored_documents
    /\ UNCHANGED <<chat_sessions, chat_messages, now, nextSession, failures,
                   pageVars, historyVars>>

\* the invocation ends without an answer of the function
InvokeFails(c) ==
    /\ calls[c].fn = "generate" /\ calls[c].pc = "invoke"
    /\ \E result \in OtherResults :
         calls' = [calls EXCEPT ![c] =
                      Settle([@ EXCEPT !.invoked = Some(result)], result)]
    /\ UNCHANGED stored_documents
    /\ UNCHANGED <<chat_sessions, chat_messages, now, nextSession, failures,
                   pageVars, historyVars>>

\* const { data, error } = await supabase.functions.invoke(...) and the rest
\* of generateResponse
InvokeReturn(c) ==
    /\ calls[c].fn = "generate" /\ calls[c].pc = "answer"
    /\ \E result \in FunctionsInvoke(calls[c].response[1]) :
         calls' = [calls EXCEPT ![c] =
                      Settle([@ EXCEPT !.invoked = Some(result)], result)]
    /\ UNCHANGED stored_documents
    /\ UNCHANGED <<chat_sessions, chat_messages, now, nextSession, failures,
                   pageVars, historyVars>>

\* a POST to the function by another client than generateResponse, with
\* what generateResponse never sends: no documentIds
PostRequest(c) ==
    /\ calls[c].pc = "idle"
    /\ \E question \in Questions, docs \in {<<>>}, upstream \in Upstreams :
         calls' = [calls EXCEPT ![c] =
                      [Done(Frame("request", "post", Null), "answered") EXCEPT
                          !.question = question,
                          !.documentIds = docs,
                          !.upstream = Some(upstream),
                          !.response = Some(Serve(question, docs, upstream))]]
    /\ UNCHANGED stored_documents
    /\ UNCHANGED <<chat_sessions, chat_messages, now, nextSession, failures,
                   pageVars, historyVars>>

GenInit ==
    /\ InitTables
    /\ calls = [c \in GenCallers |-> IdleFrame]
    /\ InitPage
    /\ InitHistory

GenNext ==
    \E c \in GenCallers :
        \/ AskGenerate(c) \/ ServeRequest(c) \/ InvokeFails(c) \/ InvokeReturn(c)
        \/ PostRequest(c)

GenSpec == GenInit /\ [][GenNext]_vars

----------------------------------------------------------------------------
(* Documents: saveDocumentToSupabase and deleteDocumentFromSupabase of       *)
(* supabaseDocumentUtils, handleFileUpload of DocumentUploader, and          *)
(* handleDocumentsUploaded and handleRemoveDocument of the Index page        *)

\* the notifications of the document functions and of the upload handler
DocTexts ==
    [failedToSave |->
        \* "Failed to save "
        <<70, 97, 105, 108, 101, 100, 32, 116, 111, 32, 115, 97, 118, 101,
        32>>,
     noContentExtracted |->
        \* ": No content extracted"
        <<58, 32, 78, 111, 32, 99, 111, 110, 116, 101, 110, 116, 32, 101,
        120, 116, 114, 97, 99, 116, 101, 100>>,
     insertFailed |->
        \* "Failed to save document to database: "
        <<70, 97, 105, 108, 101, 100, 32, 116, 111, 32, 115, 97, 118, 101,
        32, 100, 111, 99, 117, 109, 101, 110, 116, 32, 116, 111, 32, 100,
        97, 116, 97, 98, 97, 115, 101, 58, 32>>,
     deleteFailed |->
        \* "Failed to delete document from database."
        <<70, 97, 105, 108, 101, 100, 32, 116, 111, 32, 100, 101, 108,
        101, 116, 101, 32, 100, 111, 99, 117, 109, 101, 110, 116, 32, 102,
        114, 111, 109, 32, 100, 97, 116, 97, 98, 97, 115, 101, 46>>,
     savedPrefix |->
        \* "Successfully processed and saved "
        <<83, 117, 99, 99, 101, 115, 115, 102, 117, 108, 108, 121, 32,
        112, 114, 111, 99, 101, 115, 115, 101, 100, 32, 97, 110, 100, 32,
        115, 97, 118, 101, 100, 32>>,
     documentWord |->
        \* " document"
        <<32, 100, 111, 99, 117, 109, 101, 110, 116>>,
     plural |->
        \* "s"
        <<115>>,
     fullStop |->
        \* "."
        <<46>>,
     saveFailed |->
        \* "Failed to save documents to the database."
        <<70, 97, 105, 108, 101, 100, 32, 116, 111, 32, 115, 97, 118, 101,
        32, 100, 111, 99, 117, 109, 101, 110, 116, 115, 32, 116, 111, 32,
        116, 104, 101, 32, 100, 97, 116, 97, 98, 97, 115, 101, 46>>,
     noneProcessed |->
        \* "No documents were successfully processed."
        <<78, 111, 32, 100, 111, 99, 117, 109, 101, 110, 116, 115, 32,
        119, 101, 114, 101, 32, 115, 117, 99, 99, 101, 115, 115, 102, 117,
        108, 108, 121, 32, 112, 114, 111, 99, 101, 115, 115, 101, 100,
        46>>,
     removed |->
        \* "Document removed successfully"
        <<68, 111, 99, 117, 109, 101, 110, 116, 32, 114, 101, 109, 111,
        118, 101, 100, 32, 115, 117, 99, 99, 101, 115, 115, 102, 117, 108,
        108, 121>>]

MaxFiles == 2

\* the id of the stored document, and the uuidv4() of processPdfFile for the
\* first and the second file of the upload
DocIds == <<"d1", "u1", "u2">>

\* what processMultiplePdfFiles can hand on for one or two files: each with
\* extracted text or with none; no document when no file could be read
ProcessedDocuments ==
    { <<>> }
      \cup { << [id |-> DocIds[2], name |-> Samples.fileA, content |-> a] >> :
                   a \in {<<>>, Answer} }
      \cup { << [id |-> DocIds[2], name |-> Samples.fileA, content |-> a],
                [id |-> DocIds[3], name |-> Samples.fileB, content |-> b] >> :
                   a \in {<<>>, Answer}, b \in {<<>>, Answer} }

\* handleFileUpload, the saveDocumentToSupabase call for its i-th document,
\* and the handleRemoveDocument call for the i-th document id
DocCallers ==
    { <<"upload", 0>> } \cup { <<"saveDocument", i>> : i \in 1..MaxFiles }
                        \cup { <<"remove", i>> : i \in 1..Len(DocIds) }

\* saveDocumentToSupabase inserting a document whatever its content
NoContentNever(document) == FALSE

\* !document.content || document.content.length === 0
NoContent(document) == Len(document.content) = 0

NoContentToast(document) ==
    DocTexts.failedToSave \o document.name \o DocTexts.noContentExtracted

InsertFailedToast(message) == DocTexts.insertFailed \o message

\* saveDocumentToSupabase(document) up to its await: without content it has
\* returned false with its notification, else the insert is awaited
SaveDocumentStart(document) ==
    IF NoContent(document)
    THEN [Done(Frame("saveDocument", "check", Null), "false") EXCEPT
             !.document = Some(document), !.toast = Some(NoContentToast(document))]
    ELSE [Frame("saveDocument", "insert", Null) EXCEPT !.document = Some(document)]

\* handleFileUpload(files): processMultiplePdfFiles, then
\* processedDocuments.map(doc => saveDocumentToSupabase(doc)) starts every
\* save; Promise.all is awaited
HandleFileUpload(processed) ==
    /\ calls[<<"upload", 0>>].fn = "none"
    /\ calls' = [c \in DocCallers |->
                    IF c = <<"upload", 0>>
                    THEN IF Len(processed) = 0
                         THEN [Done(Frame("upload", "process", Null), "none") EXCEPT
                                  !.toast = Some(DocTexts.noneProcessed)]
                         ELSE [Frame("upload", "all", Null) EXCEPT
                                  !.documentIds = [i \in 1..Len(processed) |-> processed[i].id]]
                    ELSE IF \E i \in 1..Len(processed) : c = <<"saveDocument", i>>
                    THEN SaveDocumentStart(processed[c[2]])
                    ELSE calls[c]]
    /\ UNCHANGED <<chat_sessions, chat_messages, stored_documents, now, nextSession,
                   failures, pageVars, historyVars>>

\* const { error } = await supabase.from('documents').insert({...}):
\* "if (error) return false" with the notification of the store's message
DocInsert(c) ==
    /\ calls[c].fn = "saveDocument" /\ calls[c].pc = "insert"
    /\ \E o \in Outcomes :
         LET f == Step(calls[c], "insert", o)
         IN /\ stored_documents' = IF o = "ok"
                                   THEN stored_documents \cup {f.document[1].id}
                                   ELSE stored_documents
            /\ calls' = [calls EXCEPT ![c] =
                            IF o = "ok" THEN Done(f, "true")
                            ELSE [Done(f, "false") EXCEPT
                                     !.toast = Some(InsertFailedToast(Samples.storeMessage))]]
            /\ Answered(o)
    /\ UNCHANGED <<chat_sessions, chat_messages, now, nextSession, pageVars, historyVars>>

\* Promise.all(savePromises) has settled: successCount is
\* saveResults.filter(Boolean).length, and if (successCount > 0)
\* onDocumentsUploaded(processedDocuments), which is
\* setDocuments((prevDocuments) => [...prevDocuments, ...newDocuments])
UploadResume ==
    /\ calls[<<"upload", 0>>].fn = "upload" /\ calls[<<"upload", 0>>].pc = "all"
    /\ LET f == calls[<<"upload", 0>>]
           n == Len(f.documentIds)
           successCount ==
               Cardinality({ i \in 1..n : calls[<<"saveDocument", i>>].result = "true" })
           savedToast ==
               DocTexts.savedPrefix \o Decimal(successCount) \o DocTexts.documentWord
                   \o (IF successCount > 1 THEN DocTexts.plural ELSE <<>>)
                   \o DocTexts.fullStop
       IN /\ \A i \in 1..n : calls[<<"saveDocument", i>>].pc = "done"
          /\ IF successCount > 0
             THEN /\ documents' = documents \o f.documentIds
                  /\ calls' = [calls EXCEPT ![<<"upload", 0>>] =
                                  [Done(f, "true") EXCEPT
                                      !.toast = Some(savedToast)]]
             ELSE /\ documents' = documents
                  /\ calls' = [calls EXCEPT ![<<"upload", 0>>] =
                                  [Done(f, "false") EXCEPT
                                      !.toast = Some(DocTexts.saveFailed)]]
    /\ UNCHANGED <<chat_sessions, chat_messages, stored_documents, now, nextSession,
                   failures, messages, currentChatId, isSaving, isWaitingForResponse,
                   saveChatDebounced, sends, nextMsg, chatSessions, clicks, historyVars>>

\* handleRemoveDocument(id) of a document of the list:
\* deleteDocumentFromSupabase(id) is awaited
HandleRemoveDocument(i) ==
    /\ \E k \in 1..Len(documents) : documents[k] = DocIds[i]
    /\ calls[<<"remove", i>>].fn = "none"
    /\ Click
    /\ calls' = [calls EXCEPT ![<<"remove", i>>] =
                    [Frame("deleteDocument", "delete", Null) EXCEPT
                        !.documentIds = <<DocIds[i]>>]]
    /\ UNCHANGED <<chat_sessions, chat_messages, stored_documents, now, nextSession,
                   failures, pageState, historyVars>>

\* const { error } = await supabase.from('documents').delete().eq('id', id):
\* "if (error) return false" with its notification
DocDelete(c) ==
    /\ calls[c].fn = "deleteDocument" /\ calls[c].pc = "delete"
    /\ \E o \in Outcomes :
         LET f == Step(calls[c], "delete", o)
         IN /\ stored_documents' = IF o = "ok"
                                   THEN stored_documents \ {f.documentIds[1]}
                                   ELSE stored_documents
            /\ calls' = [calls EXCEPT ![c] =
                            IF o = "ok" THEN Done(f, "true")
                            ELSE [Done(f, "false") EXCEPT
                                     !.toast = Some(DocTexts.deleteFailed)]]
            /\ Answered(o)
    /\ UNCHANGED <<chat_sessions, chat_messages, now, nextSession, pageVars, historyVars>>

\* deleteDocumentFromSupabase has returned: if (deleted) the document leaves
\* the list, prevDocuments.filter((doc) => doc.id !== id)
RemoveResume(i) ==
    /\ calls[<<"remove", i>>].fn = "deleteDocument"
    /\ calls[<<"remove", i>>].pc = "done"
    /\ documents' = IF calls[<<"remove", i>>].result = "true"
                    THEN SelectSeq(documents, LAMBDA d : d # DocIds[i])
                    ELSE documents
    /\ calls' = [calls EXCEPT ![<<"remove", i>>] = IdleFrame]
    /\ UNCHANGED <<chat_sessions, chat_messages, stored_documents, now, nextSession,
                   failures, messages, currentChatId, isSaving, isWaitingForResponse,
                   saveChatDebounced, sends, nextMsg, chatSessions, clicks, historyVars>>

DocInit ==
    /\ InitTables
    /\ calls = [c \in DocCallers |-> IdleFrame]
    /\ InitPage
    /\ InitHistory

DocNext ==
    \/ \E processed \in ProcessedDocuments : HandleFileUpload(processed)
    \/ \E c \in DocCallers : DocInsert(c)
    \/ UploadResume
    \/ \E i \in 1..Len(DocIds) : HandleRemoveDocument(i)
    \/ \E c \in DocCallers : DocDelete(c)
    \/ \E i \in 1..Len(DocIds) : RemoveResume(i)

DocSpec == DocInit /\ [][DocNext]_vars

----------------------------------------------------------------------------
(* Claims on chatHistoryUtils, checked under StoreSpec *)

\* what the round trip is to keep of a message
Core(msg) == [id |-> msg.id, text |-> msg.text, sender |-> msg.sender,
              timestamp |-> msg.timestamp]

SameMessages(loaded, msgs) ==
    /\ Len(loaded) = Len(msgs)
    /\ { Core(loaded[i]) : i \in 1..Len(loaded) } = { Core(msgs[i]) : i \in 1..Len(msgs) }

Ascending(loaded) ==
    \A i, j \in 1..Len(loaded) : i < j => loaded[i].timestamp <= loaded[j].timestamp

Stepped(frame, name, outcome) ==
    \E i \in 1..Len(frame.trace) : frame.trace[i] = <<name, outcome>>

SaveReturnedTrue(frame) ==
    frame.fn = "save" /\ frame.pc = "done" /\ frame.result = "true"

\* C1: when saveChatMessages(S, M) has returned true and no other caller has
\* written to the log of S since the call began, getChatMessages(S) answers
\* exactly the messages of M (id, text, sender, timestamp) in ascending order
\* of timestamp, whatever was stored for S before.
C1_SaveLoadRoundTrip ==
    \A c \in DOMAIN calls :
        (SaveReturnedTrue(calls[c]) /\ calls[c].clean) =>
            \A loaded \in GetChatMessagesResults(chat_messages, calls[c].sessionId, "ok") :
                SameMessages(loaded, calls[c].messages) /\ Ascending(loaded)

\* C3: deleteChatSession issues the delete of the session row only after the
\* delete of the messages has answered without error; when the delete of the
\* messages reports an error the call is over, has returned false, and no
\* delete of the session row was issued.
C3_MessagesBeforeSession ==
    \A c \in DOMAIN calls :
        calls[c].fn = "delete" =>
            /\ (Stepped(calls[c], "session", "ok") \/ Stepped(calls[c], "session", "error")
                \/ calls[c].pc = "session")
                  => calls[c].trace[1] = <<"messages", "ok">>
            /\ Stepped(calls[c], "messages", "error")
                  => /\ calls[c].pc = "done"
                     /\ calls[c].result = "false"
                     /\ Len(calls[c].trace) = 1

\* C3 witness: a deleteChatSession whose delete of the messages failed is over
\* and the session row is still stored
C3_Witness ==
    \E c \in DOMAIN calls :
        /\ calls[c].fn = "delete"
        /\ Stepped(calls[c], "messages", "error")
        /\ calls[c].pc = "done"
        /\ chat_sessions[calls[c].sessionId].present

UpdatedAtWritten(frame) == Stepped(frame, "update", "ok")

LogReplaced(frame) ==
    \/ Stepped(frame, "insert", "ok")
    \/ (Stepped(frame, "delete", "ok") /\ Len(frame.messages) = 0)

\* C7: no saveChatMessages call has written updated_at while its replacement
\* of the log (delete the old rows, insert the new ones) is not complete.
C7_LogBeforeUpdatedAt ==
    \A c \in DOMAIN calls :
        (calls[c].fn = "save" /\ UpdatedAtWritten(calls[c])) => LogReplaced(calls[c])

NoStoreError(frame) ==
    \A i \in 1..Len(frame.trace) : frame.trace[i][2] = "ok"

\* C8: when two callers have both finished saveChatMessages on the same
\* session (here: both returned true and the store reported no error to
\* either), the stored log of the session is the one or the other's messages
\* in full.
C8_LastWriteWins ==
    \A c, d \in DOMAIN calls :
        ( /\ c # d
          /\ SaveReturnedTrue(calls[c]) /\ SaveReturnedTrue(calls[d])
          /\ calls[c].sessionId = calls[d].sessionId
          /\ NoStoreError(calls[c]) /\ NoStoreError(calls[d]) )
        => RowsOf(chat_messages, calls[c].sessionId)
              \in { MessagesToInsert(calls[c].sessionId, calls[c].messages),
                    MessagesToInsert(calls[d].sessionId, calls[d].messages) }

----------------------------------------------------------------------------
(* Claims on the page and the store together, checked under Spec *)

\* C2: for every id for which deleteChatSession has returned true,
\* getChatSession(id) finds no session and getChatMessages(id) answers the
\* empty sequence.
C2_DeletedSessionIsGone ==
    \A id \in deletedOk :
        /\ GetChatSessionResult(chat_sessions, id, "ok") = None
        /\ GetChatMessagesResults(chat_messages, id, "ok") = { <<>> }

\* C4: the bot message of a request sent from session X is in the message list
\* only while X is the active session, and it is handed to saveChatMessages
\* for no session other than X.
C4_LateResponseDiscarded ==
    \A p \in origin :
        /\ p[1] \in IdsOf(messages) => currentChatId = p[2]
        /\ \A q \in saveLog : q[2] = p[1] => q[1] = p[2]

\* nothing is pending on the page: no timer, no request, no call; from here
\* on nothing happens until the user acts
Quiescent ==
    /\ saveChatDebounced = None
    /\ sends = {}
    /\ \A c \in DOMAIN calls : calls[c].fn = "none"

\* C5: once the page has come to rest on a session (the quiet period is over
\* and no save is pending or in flight), every message of the in-memory log
\* has been written: it is stored under the session, or at least it was
\* handed to a saveChatMessages call for the session.
C5_EveryMessageIsSaved ==
    (Quiescent /\ currentChatId # Null) =>
        \A i \in 1..Len(messages) :
            \/ <<currentChatId, messages[i].id>> \in saveLog
            \/ \E r \in RowsOf(chat_messages, currentChatId) : r.id = messages[i].id

DeleteInFlight(id) ==
    \E c \in DOMAIN calls : calls[c].fn = "delete" /\ calls[c].sessionId = id

\* C6: a message written on this page and shown under a session the page has
\* since left was handed to saveChatMessages for that session (as long as the
\* session exists and is not being deleted).
C6_FlushOnLeave ==
    \A p \in shown :
        ( /\ p[1] # currentChatId
          /\ p[2] \in NewIds
          /\ chat_sessions[p[1]].present
          /\ ~DeleteInFlight(p[1]) )
        => p \in saveLog

NoCallInFlight == \A c \in DOMAIN calls : calls[c].pc \in {"idle", "done"}

\* C9: whenever no store request is in flight, every stored message row has
\* the id of a stored session.
C9_NoOrphanedMessages ==
    NoCallInFlight =>
        \A r \in chat_messages :
            r.session_id \in SessionIds /\ chat_sessions[r.session_id].present

\* C10: at most one handleSendMessage is under way, and while it is the page
\* shows isWaitingForResponse, which keeps handleSubmit from sending.
C10_OneRequestOutstanding ==
    /\ Cardinality(sends) <= 1
    /\ sends # {} => isWaitingForResponse

\* C10 witness: a generation request is outstanding, the user has clicked on
\* the history panel since and the page is on another session than the one
\* of the request
C10_Witness ==
    \E s \in sends :
        /\ s.pc = "generate"
        /\ clicks > 0
        /\ currentChatId # s.chatId
        /\ isWaitingForResponse

----------------------------------------------------------------------------
(* Claims about generateResponse, checked under GenSpec *)

Asked(c) == calls[c].fn = "generate"
Settled(c) == Asked(c) /\ calls[c].pc = "done"

\* C13: a generateResponse call without documents has returned, whatever the
\* question, the bot message with the fixed "Please upload some PDF documents
\* first ..." text, and no request was made for it.
C13_NoDocumentsNoInvocation ==
    \A c \in GenCallers :
        (Asked(c) /\ Len(calls[c].documentIds) = 0) =>
            /\ calls[c].pc = "done"
            /\ calls[c].result = "resolved"
            /\ calls[c].invocations = 0
            /\ calls[c].response = None
            /\ calls[c].invoked = None
            /\ calls[c].message # None
            /\ calls[c].message[1].sender = "bot"
            /\ calls[c].message[1].text = Texts.uploadFirst
            /\ calls[c].message[1].sourceInfo = None

\* C13 witness: generateResponse was called without documents with an empty
\* and with a non-empty question
C13_Witness ==
    \E c, d \in GenCallers :
        /\ Settled(c) /\ calls[c].documentIds = <<>> /\ calls[c].question = <<>>
        /\ Settled(d) /\ calls[d].documentIds = <<>> /\ calls[d].question = Texts.quota

\* C14: every generateResponse call that has ended has resolved, to a message
\* of the bot with a non-empty text, whatever the invocation came back with.
C14_AlwaysResolves ==
    \A c \in GenCallers :
        Settled(c) =>
            /\ calls[c].result = "resolved"
            /\ calls[c].message # None
            /\ calls[c].message[1].sender = "bot"
            /\ Len(calls[c].message[1].text) > 0

\* C14 witness: one call has ended after an exception in the try block, one
\* after an error object without message
C14_Witness ==
    \E c, d \in GenCallers :
        /\ Settled(c) /\ calls[c].invoked = Some(InvokeThrown)
        /\ Settled(d) /\ calls[d].invoked = Some(InvokeError(None))

\* C15: when the function answers status 429 with error "OpenAI API quota
\* exceeded", the message generateResponse returns is the quota and billing
\* guidance, with no text of the failure in it.
C15_QuotaGuidance ==
    \A c \in GenCallers :
        ( /\ Settled(c)
          /\ calls[c].response # None
          /\ calls[c].response[1].status = 429
          /\ calls[c].response[1].body.error = Some(FunctionTexts.quotaExceededError) )
        => calls[c].message = Some(BotMessage(calls[c].message[1].id, Texts.quotaExceededText,
                                              calls[c].message[1].timestamp))

IsPrefix(p, s) == Len(p) <= Len(s) /\ SubSeq(s, 1, Len(p)) = p

\* the kind of failure a text of generateResponse tells the user of
KindOf(text) ==
    IF text = Texts.quotaExceededText THEN "quota_exceeded"
    ELSE IF text = Texts.keyNotConfiguredText THEN "misconfigured_credentials"
    ELSE IF text = Texts.noResponseText THEN "no_response"
    ELSE IF text = Texts.invalidFormatText THEN "malformed_response"
    ELSE IF IsPrefix(Texts.troublePrefix, text) \/ text = Texts.couldNotGenerateText
    THEN "transport_error"
    ELSE IF IsPrefix(Texts.serviceErrorPrefix, text) THEN "service_error"
    ELSE "delivered"

RateLimited(upstream) ==
    /\ upstream.documentsFound /\ upstream.keyConfigured
    /\ ~upstream.openai.thrown
    /\ upstream.openai.status = 429
    /\ upstream.openai.errorType = Some(Samples.rateLimitType)

KeyMissing(upstream) == upstream.documentsFound /\ ~upstream.keyConfigured

\* C16: a request the OpenAI API turned down for its rate limit is answered
\* with a rate-limit message, which is not the quota message, and a request
\* that found no API key configured is answered with the message that names
\* the missing OpenAI API key.
C16_FailureKinds ==
    \A c \in GenCallers :
        (Settled(c) /\ calls[c].upstream # None /\ Len(calls[c].question) > 0) =>
            /\ RateLimited(calls[c].upstream[1])
                  => KindOf(calls[c].message[1].text) = "rate_limited"
            /\ KeyMissing(calls[c].upstream[1])
                  => Includes(calls[c].message[1].text, Texts.keyNotConfigured)

\* a member of the payload is taken over as it is, or left out
TakenOver(member, field) == field \in {member, None} /\ (Truthy(member) => field = member)

\* C17: a payload without error and with a non-empty text gives the bot
\* message with that text, with the sourceDocuments of the payload (the empty
\* list when the payload has none or no list) and with pageNumber,
\* sectionInfo and paragraphInfo as in the payload or absent; a payload
\* without error and without text gives the fixed "invalid response format"
\* message without sourceInfo.
C17_PayloadParsing ==
    \A c \in GenCallers :
        ( /\ Settled(c)
          /\ calls[c].invoked # None
          /\ ~calls[c].invoked[1].thrown
          /\ calls[c].invoked[1].error = None
          /\ calls[c].invoked[1].data # None
          /\ ~Truthy(calls[c].invoked[1].data[1].error) )
        => LET data == calls[c].invoked[1].data[1]
               message == calls[c].message[1]
           IN /\ calls[c].message # None
              /\ message.sender = "bot"
              /\ IF Truthy(data.text)
                 THEN /\ message.text = data.text[1]
                      /\ message.sourceInfo # None
                      /\ message.sourceInfo[1].sourceDocuments =
                            IF data.sourceDocuments = JsonArray(<<"A.pdf">>)
                            THEN <<"A.pdf">> ELSE <<>>
                      /\ TakenOver(data.pageNumber, message.sourceInfo[1].pageNumber)
                      /\ TakenOver(data.sectionInfo, message.sourceInfo[1].sectionInfo)
                      /\ TakenOver(data.paragraphInfo, message.sourceInfo[1].paragraphInfo)
                 ELSE /\ message.text = Texts.invalidFormatText
                      /\ message.sourceInfo = None

\* C17 witness: one call got the full answer through the function and kept
\* its page number, one got a payload whose sourceDocuments is no list
C17_Witness ==
    \E c, d \in GenCallers :
        /\ Settled(c)
        /\ calls[c].response # None
        /\ calls[c].invoked = Some(InvokeResult(Some(ParsedResponse(JsonContent(FullAnswer))),
                                                None))
        /\ calls[c].message[1].sourceInfo[1].pageNumber = Some(Samples.pageThree)
        /\ Settled(d)
        /\ calls[d].invoked # None
        /\ calls[d].invoked[1].data # None
        /\ calls[d].invoked[1].data[1].sourceDocuments = JsonNoArray
        /\ calls[d].message[1].sourceInfo = Some(PayloadSourceInfo(calls[d].invoked[1].data[1]))

----------------------------------------------------------------------------
(* Claims about handleSendMessage, checked under LiveSpec and Spec *)

\* C11: every user message has exactly one bot message appended after it once
\* its handleSendMessage has ended and none before; isWaitingForResponse is
\* false whenever no handleSendMessage is under way; and, the store and the
\* invocation answering, a page that waits for a response stops waiting.
C11_NeverStalled ==
    /\ [](nextMsg = 2 * Cardinality(origin) + Cardinality(sends))
    /\ [](sends = {} => ~isWaitingForResponse)
    /\ (isWaitingForResponse ~> ~isWaitingForResponse)

\* C11 witness: createChatSession has failed for the handleSendMessage under
\* way, which goes on to wait for the answer of the invocation
C11_Witness ==
    \E s \in sends :
        /\ s.pc = "generate"
        /\ s.chatId = Null
        /\ isWaitingForResponse
        /\ failures > 0

\* C12: a handleSendMessage call waits for createChatSession, then for the
\* one request of generateResponse, then ends; a call that has ended does not
\* come back, and no call makes a second request.
C12_PerCallStateMachine ==
    /\ [](\A s \in sends : s.invocations = IF s.pc = "generate" THEN 1 ELSE 0)
    /\ [][ /\ \A s \in sends :
                \/ s \in sends'
                \/ /\ s.pc = "create"
                   /\ \E t \in sends' : t.msg = s.msg /\ t.pc = "generate"
                \/ \A t \in sends' : t.msg # s.msg
           /\ \A t \in sends' \ sends :
                \/ t.msg = NewId
                \/ \E s \in sends : s.msg = t.msg /\ s.pc = "create" /\ t.pc = "generate"
         ]_vars

\* C12 witness: the invocation has answered with an error, its bot message
\* is the last of the list, and no handleSendMessage is under way
C12_Witness ==
    /\ sends = {}
    /\ ~isWaitingForResponse
    /\ Len(messages) > 0
    /\ messages[Len(messages)].sender = "bot"
    /\ IsPrefix(Texts.troublePrefix, messages[Len(messages)].text)

----------------------------------------------------------------------------
(* Claims about the stored log and updated_at, checked under StoreSpec *)

\* the citation a message saved with sourceInfo is to come back with
Reloaded(sourceInfo) ==
    IF sourceInfo = None THEN None
    ELSE Some([sourceDocuments |-> sourceInfo[1].sourceDocuments,
               pageNumber |-> IF sourceInfo[1].pageNumber = None THEN Some(<<>>)
                              ELSE sourceInfo[1].pageNumber,
               sectionInfo |-> IF sourceInfo[1].sectionInfo = None THEN Some(<<>>)
                               ELSE sourceInfo[1].sectionInfo,
               paragraphInfo |-> IF sourceInfo[1].paragraphInfo = None THEN Some(<<>>)
                                 ELSE sourceInfo[1].paragraphInfo])

WellFormed(sourceInfo) ==
    \/ sourceInfo = None
    \/ /\ Len(sourceInfo) = 1
       /\ sourceInfo[1].pageNumber # None
       /\ sourceInfo[1].sectionInfo # None
       /\ sourceInfo[1].paragraphInfo # None

\* C18: after a save that returned true, with no other writer on the session
\* since, every message of the saved log is loaded with the sourceDocuments
\* and page number it was saved with, each citation field left out at the
\* save as the empty string, and no sourceInfo when it had none; and whatever
\* the rows hold, source_info a JSON string included, every loaded message
\* has no sourceInfo or one whose three fields are strings.
C18_CitationRoundTrip ==
    /\ \A c \in StoreCallers :
         (calls[c].fn = "save" /\ SaveReturnedTrue(calls[c]) /\ calls[c].clean) =>
            \A loaded \in GetChatMessagesResults(chat_messages, calls[c].sessionId, "ok") :
               \A i \in 1..Len(calls[c].messages) :
                  \E j \in 1..Len(loaded) :
                     /\ loaded[j].id = calls[c].messages[i].id
                     /\ loaded[j].sourceInfo = Reloaded(calls[c].messages[i].sourceInfo)
    /\ \A id \in SessionIds :
         \A loaded \in GetChatMessagesResults(chat_messages, id, "ok") :
            \A j \in 1..Len(loaded) : WellFormed(loaded[j].sourceInfo)

\* C18 witness: a log holding a message with a page number and no section, a
\* message with no citation field at all and a message without sourceInfo
\* was saved; another session still holds the row whose source_info is a
\* JSON string
C18_Witness ==
    /\ \E c \in StoreCallers :
         /\ calls[c].fn = "save" /\ SaveReturnedTrue(calls[c]) /\ calls[c].clean
         /\ calls[c].sessionId # 1
         /\ \E i \in 1..Len(calls[c].messages) :
              /\ calls[c].messages[i].sourceInfo # None
              /\ calls[c].messages[i].sourceInfo[1].pageNumber # None
         /\ \E i \in 1..Len(calls[c].messages) :
              /\ calls[c].messages[i].sourceInfo # None
              /\ calls[c].messages[i].sourceInfo[1].pageNumber = None
    /\ ForeignRow \in chat_messages

\* C19: a save whose delete of the old rows succeeded and whose insert failed
\* has returned false, and with no other writer on the session since, the
\* session's stored log is empty.
C19_PartialSaveFailure ==
    \A c \in StoreCallers :
        ( /\ calls[c].fn = "save" /\ calls[c].pc = "done"
          /\ Stepped(calls[c], "delete", "ok")
          /\ Stepped(calls[c], "insert", "error") )
        => /\ calls[c].result = "false"
           /\ calls[c].clean => RowsOf(chat_messages, calls[c].sessionId) = {}

\* C19 witness: the save was for the session that had a stored message, and
\* that message is gone
C19_Witness ==
    \E c \in StoreCallers :
        /\ calls[c].fn = "save" /\ calls[c].pc = "done"
        /\ calls[c].sessionId = 1
        /\ calls[c].clean
        /\ Stepped(calls[c], "delete", "ok")
        /\ Stepped(calls[c], "insert", "error")
        /\ calls[c].result = "false"
        /\ RowsOf(chat_messages, 1) = {}

\* C20: when one caller alone has used the store, a saveChatMessages or
\* updateChatSessionTitle call of its that returned true has left the
\* session's updated_at at the time of the call, which is later than any
\* time written before and not before created_at.
C20_UpdatedAtBumped ==
    \A c \in StoreCallers :
        ( /\ calls[c].fn \in {"save", "rename"}
          /\ calls[c].pc = "done"
          /\ calls[c].result = "true"
          /\ chat_sessions[calls[c].sessionId].present
          /\ \A d \in StoreCallers \ {c} : calls[d].fn = "none" )
        => /\ GetTime(chat_sessions[calls[c].sessionId].updated_at) = calls[c].timestamp
           /\ IsoLeq(chat_sessions[calls[c].sessionId].created_at,
                     chat_sessions[calls[c].sessionId].updated_at)

\* the update request of an updateChatSessionTitle call of c is answered in
\* this step
RenameAnswered(c) ==
    /\ calls[c].fn = "rename" /\ calls[c].pc = "update"
    /\ calls'[c].pc = "done"

\* C21: the step in which the store answers updateChatSessionTitle(id, t)
\* leaves chat_messages as it is (the rows under id included), and every row
\* of chat_sessions as it is but for the title and updated_at of session id:
\* its presence, document_ids and created_at and all other sessions are
\* unchanged; when the call returns true the session has title t.
C21_RenameLeavesLog ==
    [][ \A c \in StoreCallers :
          RenameAnswered(c) =>
             /\ chat_messages' = chat_messages
             /\ nextSession' = nextSession
             /\ \A id \in SessionIds :
                  IF id = calls[c].sessionId
                  THEN /\ chat_sessions'[id].present = chat_sessions[id].present
                       /\ chat_sessions'[id].document_ids = chat_sessions[id].document_ids
                       /\ chat_sessions'[id].created_at = chat_sessions[id].created_at
                       /\ (calls'[c].result = "true" /\ chat_sessions[id].present)
                             => chat_sessions'[id].title = calls[c].title
                       /\ calls'[c].result = "false"
                             => chat_sessions'[id] = chat_sessions[id]
                  ELSE chat_sessions'[id] = chat_sessions[id] ]_vars

\* C21 witness: the session with a stored message has been renamed, and the
\* message is still stored under it
C21_Witness ==
    \E c \in StoreCallers :
        /\ calls[c].fn = "rename" /\ calls[c].pc = "done"
        /\ calls[c].result = "true"
        /\ calls[c].sessionId = 1
        /\ chat_sessions[1].title = Answer
        /\ chat_sessions[1].title # Question
        /\ GetTime(chat_sessions[1].updated_at) = calls[c].timestamp
        /\ chat_sessions[1].created_at # chat_sessions[1].updated_at
        /\ RowsOf(chat_messages, 1) # {}

\* C28: a saveChatMessages(S, M) call that is over has returned false when
\* the store reported an error on any of its steps (updated_at, delete of
\* the old rows, insert), and when it returned true and no other caller has
\* written to the log of S since, the rows stored under S are exactly those
\* of M.
C28_SaveTrueMeansStored ==
    \A c \in StoreCallers :
        (calls[c].fn = "save" /\ calls[c].pc = "done") =>
            /\ ~NoStoreError(calls[c]) => calls[c].result = "false"
            /\ (calls[c].result = "true" /\ calls[c].clean)
                  => RowsOf(chat_messages, calls[c].sessionId)
                        = MessagesToInsert(calls[c].sessionId, calls[c].messages)

----------------------------------------------------------------------------
(* Claims about the function, checked under GenSpec *)

SuccessBody(response) ==
    /\ response.status = 200
    /\ Truthy(response.body.text)
    /\ response.body.sourceDocuments # None
    /\ response.body.pageNumber # None
    /\ response.body.sectionInfo # None
    /\ response.body.paragraphInfo # None

FailureBody(response) ==
    /\ ~Ok(response.status)
    /\ Truthy(response.body.error)
    /\ response.body.text = None

\* C24: every response of the function to a POST is a success body (status
\* 200, a non-empty text, and sourceDocuments, pageNumber, sectionInfo and
\* paragraphInfo all present) or an error body (an error text and a status
\* outside 200..299), never both and never neither, whatever the question,
\* the documentIds, the documents table, the API key setting and the answer
\* of the OpenAI API.
C24_ProxyAnswers ==
    \A c \in GenCallers :
        calls[c].response # None =>
            /\ SuccessBody(calls[c].response[1]) \/ FailureBody(calls[c].response[1])
            /\ ~(SuccessBody(calls[c].response[1]) /\ FailureBody(calls[c].response[1]))

\* C24 witness: one request came without documentIds, and one met model
\* content that is no JSON and was answered with the content as text and the
\* citation fields empty
C24_Witness ==
    \E c, d \in GenCallers :
        /\ calls[c].fn = "request"
        /\ calls[c].documentIds = <<>> /\ calls[c].question # <<>>
        /\ calls[c].response[1].status = 500
        /\ calls[c].response[1].body.error = Some(FunctionTexts.documentIdRequired)
        /\ calls[d].response # None
        /\ calls[d].upstream[1].openai.content = TextContent(Answer)
        /\ calls[d].response[1].status = 200
        /\ calls[d].response[1].body.text = Some(Answer)
        /\ calls[d].response[1].body.pageNumber = Some(<<>>)
        /\ calls[d].response[1].body.sourceDocuments = JsonArray(<<>>)

----------------------------------------------------------------------------
(* Claims about the documents, checked under DocSpec *)

\* C23: a saveDocumentToSupabase call for a document without content is over
\* at once: it has returned false, has issued no insert, the document is not
\* in the documents table, and its notification is the one of "No content
\* extracted" with the name of the document, which is not the notification
\* of a failed insert; a call for a document with content has no such
\* notification.
C23_EmptyContentFails ==
    \A i \in 1..MaxFiles :
        LET f == calls[<<"saveDocument", i>>]
        IN f.fn = "saveDocument" =>
              IF Len(f.document[1].content) = 0
              THEN /\ f.pc = "done"
                   /\ f.result = "false"
                   /\ f.trace = <<>>
                   /\ f.document[1].id \notin stored_documents
                   /\ f.toast = Some(NoContentToast(f.document[1]))
                   /\ f.toast # Some(InsertFailedToast(Samples.storeMessage))
                   /\ ~IsPrefix(DocTexts.insertFailed, f.toast[1])
              ELSE f.toast # Some(NoContentToast(f.document[1]))

\* C23 witness: of two uploaded documents the one without content was
\* refused, and the insert of the other one failed with the other
\* notification
C23_Witness ==
    \E i, j \in 1..MaxFiles :
        /\ calls[<<"saveDocument", i>>].fn = "saveDocument"
        /\ calls[<<"saveDocument", i>>].document[1].content = <<>>
        /\ calls[<<"saveDocument", i>>].result = "false"
        /\ calls[<<"saveDocument", j>>].fn = "saveDocument"
        /\ calls[<<"saveDocument", j>>].document[1].content # <<>>
        /\ calls[<<"saveDocument", j>>].result = "false"
        /\ calls[<<"saveDocument", j>>].toast
              = Some(InsertFailedToast(Samples.storeMessage))

\* the delete of document id has been answered and handleRemoveDocument has
\* not yet taken the document from the list
RemoveInFlight(id) ==
    \E i \in 1..Len(DocIds) :
        /\ DocIds[i] = id
        /\ calls[<<"remove", i>>].fn = "deleteDocument"
        /\ calls[<<"remove", i>>].pc = "done"

\* C29: every document of the page's list is a row of the documents table
\* (but for a document whose delete the store has just answered), and a
\* document of an upload is in the list only if its saveDocumentToSupabase
\* call returned true.
C29_ListedDocumentsAreStored ==
    /\ \A k \in 1..Len(documents) :
          documents[k] \in stored_documents \/ RemoveInFlight(documents[k])
    /\ \A k \in 1..Len(documents) :
          \A i \in 1..MaxFiles :
             documents[k] = DocIds[i + 1] => calls[<<"saveDocument", i>>].result = "true"

----------------------------------------------------------------------------
(* Claims about the first message of a conversation, checked under LiveSpec *)

\* the question when it has at most 30 characters, else its first 30
\* characters and three full stops
Truncated(text) ==
    IF Len(text) <= 30 THEN text
    ELSE [i \in 1..33 |-> IF i <= 30 THEN text[i] ELSE 46]

\* the user sends a message in this step
SendStep == ~isWaitingForResponse /\ nextMsg' # nextMsg

\* a createChatSession call begins in this step
CreateBegins(m) ==
    calls[CreateCaller(m)].fn = "none" /\ calls'[CreateCaller(m)].fn = "create"

\* C22: a step in which a message is sent with no active session begins
\* exactly one createChatSession call, a step in which a message is sent
\* with an active session begins none, and no other step begins one; every
\* createChatSession call has the ids of the documents loaded on the page
\* and, as its title, the question of its message when that has at most 30
\* characters, else the first 30 characters followed by "...": at most 33
\* characters; the session row it has stored has this title and these
\* document ids.
C22_SessionOnFirstMessage ==
    /\ [](\A m \in NewIds :
            LET f == calls[CreateCaller(m)]
            IN f.fn = "create" =>
                  \E s \in sends :
                     /\ s.msg = m /\ s.pc = "create"
                     /\ f.documentIds = documents
                     /\ f.title = Truncated(s.text)
                     /\ Len(f.title) <= 33
                     /\ f.result = "true" =>
                           /\ chat_sessions[f.sessionId].present
                           /\ chat_sessions[f.sessionId].title = f.title
                           /\ chat_sessions[f.sessionId].document_ids = f.documentIds)
    /\ [](\A id \in SessionIds \ StoredSessions :
            chat_sessions[id].present => Len(chat_sessions[id].title) <= 33)
    /\ [][ /\ (SendStep /\ currentChatId = Null)
              => /\ Cardinality({ m \in NewIds : CreateBegins(m) }) = 1
                 /\ nextSession' = nextSession + 1
           /\ ~(SendStep /\ currentChatId = Null)
              => /\ \A m \in NewIds : ~CreateBegins(m)
                 /\ nextSession' = nextSession ]_vars

\* C22 witness: the session of a question of 31 characters is stored with a
\* title of 33 characters and the id of the loaded document, and a message
\* was sent in it since
C22_Witness ==
    \E id \in SessionIds \ StoredSessions :
        /\ chat_sessions[id].present
        /\ chat_sessions[id].title = SubSeq(Samples.question31, 1, 30) \o <<46, 46, 46>>
        /\ Len(chat_sessions[id].title) = 33
        /\ chat_sessions[id].document_ids = <<"d1">>
        /\ currentChatId = id
        /\ \E s \in sends : s.chatId = id /\ s.pc = "generate"

----------------------------------------------------------------------------
(* Claims about the debounced save and the sessions of the page, checked     *)
(* under Spec                                                                *)

SaveInFlight == calls[SaveCaller].fn = "save" /\ calls[SaveCaller].pc # "done"

\* the page calls saveChatMessages in this step
SaveBegins ==
    /\ calls'[SaveCaller].fn = "save"
    /\ calls'[SaveCaller].pc = "update"
    /\ calls[SaveCaller].pc # "update"

\* C25: the page calls saveChatMessages only while no earlier call of its is
\* under way, and only from the timer of the last change: the timer set
\* when messages or currentChatId changed last is the one that fires, so the
\* call is for the session that is active and for the messages as they are,
\* the session is not null and the messages are not empty; while a call is
\* in flight isSaving is set and no timer is pending.
C25_DebouncedSave ==
    /\ [](SaveInFlight => isSaving /\ saveChatDebounced = None)
    /\ [][ SaveBegins =>
              /\ calls[SaveCaller].fn = "none"
              /\ ~isSaving
              /\ saveChatDebounced
                    = Some([chatId |-> currentChatId, messages |-> messages])
              /\ calls'[SaveCaller].sessionId = currentChatId
              /\ calls'[SaveCaller].messages = messages
              /\ currentChatId # Null
              /\ Len(messages) > 0 ]_vars

\* C25 witness: a save is in flight and the messages have changed since it
\* began
C25_Witness ==
    /\ SaveInFlight
    /\ calls[SaveCaller].sessionId = currentChatId
    /\ Len(messages) > Len(calls[SaveCaller].messages)
    /\ saveChatDebounced = None

\* C26: the message loaded from stored session 1 is handed to
\* saveChatMessages for no other session than 1, whatever the order of send,
\* session creation, select-chat, new-chat and the timer of the save.
C26_NoCrossSessionSave ==
    \A q \in saveLog :
        q[2] = StoredMessage.id => q[1] \in StoredSessions

\* C27: as long as the user has sent nothing, whatever sessions they have
\* selected, the page has called saveChatMessages for no session, the
\* updated_at of the stored session is the one it had, and no other row than
\* its stored message is under it.
C27_SelectOnlyReads ==
    nextMsg = 0 =>
        /\ saveLog = {}
        /\ calls[SaveCaller].fn = "none"
        /\ \A id \in StoredSessions :
              /\ chat_sessions[id].present
                    => chat_sessions[id].updated_at = ToISOString(0)
              /\ RowsOf(chat_messages, id) \subseteq { MessageToRow(id, StoredMessage) }

----------------------------------------------------------------------------
(* Claim about the history panel, checked under LiveSpec *)

\* C30: every session that handleSendMessage has created is, from some
\* moment on, in the list of the history panel, and once the panel has
\* taken the answer of a deleteChatSession that returned true, the deleted
\* session is not in its list.
C30_PanelFollowsStore ==
    /\ \A id \in SessionIds \ StoredSessions :
          chat_sessions[id].present ~> (id \in chatSessions)
    /\ [](\A id \in deletedOk :
             calls[DeleteCaller(id)].fn = "none" => id \notin chatSessions)

====
